---- MODULE Spec2Model ----
(***************************************************************************)
(* PatchworkMCP sidecar (server.py): the draft-PR pipeline of              *)
(* POST /api/feedback/{id}/draft-pr, with the feedback table, the settings *)
(* store, the remote source host (GitHub) and the model provider.          *)
(*                                                                         *)
(* Strings are modelled as sequences of tokens (short strings standing for *)
(* runs of characters); the token alphabet is chosen so that no keyword of *)
(* the code straddles two tokens, hence substring tests on characters      *)
(* coincide with contiguous-subsequence tests on tokens.                   *)
(***************************************************************************)
EXTENDS Integers, Sequences, FiniteSets, TLC

VARIABLES
    feedback,   \* table feedback: sequence of rows, row i has id i
    settings,   \* settings table merged with .env: key -> value or Absent
    now,        \* wall clock, in ticks of 1/TicksPerMinute minute
    branches,   \* remote host: branch names created under refs/heads
    commits,    \* remote host: files committed, [branch, path, content, sha]
    pulls,      \* remote host: pull requests opened, in order
    repo_tree,  \* remote host: the paths of the blobs on the base branch
    run,        \* one record per draft-pr request (its locals)
    log,        \* per request: what it did, in order (events emitted, calls made)
    probe,      \* a function of the program applied on its own: [fn, arg, done, ret]
    delivery,   \* the drop-in tool: the sidecar's answers and the two send calls
    notes       \* table feedback_notes: rows [feedback_id, timestamp, content]

vars ==
    <<feedback, settings, repo_tree, now, branches, commits, pulls, run, log, probe,
      delivery, notes>>

----------------------------------------------------------------------------
(* Bounds of the model *)

MaxFeedback == 2        \* reports submitted (one request at a time)
MaxShared == 1          \* reports submitted (overlapping requests)
MaxRequests == 2        \* draft-pr requests that may overlap
MaxNotes == 2           \* developer notes added
MaxClock == 2           \* last clock tick
TicksPerMinute == 2     \* clock ticks per minute of the "%M" field

Requests == 1 .. MaxRequests

----------------------------------------------------------------------------
(* Token strings *)

RECURSIVE Concat(_)
Concat(ss) == IF ss = <<>> THEN <<>> ELSE Head(ss) \o Concat(Tail(ss))

\* Python `needle in hay` for strings
Contains(hay, needle) ==
    \E i \in 1 .. (Len(hay) - Len(needle) + 1) :
        SubSeq(hay, i, i + Len(needle) - 1) = needle

\* Python str.replace(old, new) for a one-token old and new
Replace(s, old, new) == [i \in 1 .. Len(s) |-> IF s[i] = old THEN new ELSE s[i]]

\* str.lower() on one token: the tokens of the alphabet that hold capitals
LowerTok(t) ==
    CASE t = "Server" -> "server"
      [] t = "MCP" -> "mcp"
      [] t = ".PY" -> ".py"
      [] OTHER -> t

Lower(s) == [i \in 1 .. Len(s) |-> LowerTok(s[i])]

\* Python truthiness of a string
Truthy(s) == s # <<>>

Min(a, b) == IF a < b THEN a ELSE b

----------------------------------------------------------------------------
(* Relevance scorer *)

_SOURCE_EXTS ==
    {<<".py">>, <<".ts">>, <<".js">>, <<".go">>, <<".rs">>, <<".tsx">>, <<".jsx">>, <<".rb">>}

_MCP_PATTERNS ==
    <<"tool", "server", "mcp", "handler", "schema", "resource", "prompt">>

\* the vendored / generated markers of _score_file, each "<dir>/"
SkipMarkers ==
    {<<"node_modules", "/">>, <<"vendor", "/">>, <<".git", "/">>,
     <<"__pycache__", "/">>, <<"dist", "/">>, <<"build", "/">>}

\* tokens that start with a dot (each holds exactly one dot, its first character)
IsDotTok(t) ==
    t \in {".py", ".ts", ".js", ".go", ".rs", ".tsx", ".jsx", ".rb", ".md",
           ".PY", ".git", ".json"}

\* os.path.splitext(path)[1]: from the last dot of the last component, unless
\* that dot leads the component
Splitext(path) ==
    LET slashes == {i \in 1 .. Len(path) : path[i] = "/"}
        start == IF slashes = {} THEN 1
                 ELSE (CHOOSE i \in slashes : \A j \in slashes : j <= i) + 1
        dots == {i \in start .. Len(path) : IsDotTok(path[i])}
        k == IF dots = {} THEN 0 ELSE CHOOSE i \in dots : \A j \in dots : j <= i
    IN  IF k = 0 \/ k = start THEN <<>> ELSE SubSeq(path, k, Len(path))

ScoreBase == 0
PatternScore == 10
ServerNameScore == 20
ExtScore == 2
Rejected == -1

\* a loop that adds PatternScore for every occurrence of a pattern
RECURSIVE SumPatterns_PerOccurrence(_, _)
SumPatterns_PerOccurrence(lower, i) ==
    IF i > Len(_MCP_PATTERNS) THEN ScoreBase
    ELSE PatternScore * Cardinality({j \in 1 .. Len(lower) : lower[j] = _MCP_PATTERNS[i]})
         + SumPatterns_PerOccurrence(lower, i + 1)

\* score = 0; for pat in _MCP_PATTERNS: if pat in lower: score += 10
RECURSIVE SumPatterns(_, _)
SumPatterns(lower, i) ==
    IF i > Len(_MCP_PATTERNS) THEN ScoreBase
    ELSE (IF Contains(lower, <<_MCP_PATTERNS[i]>>) THEN PatternScore ELSE 0)
         + SumPatterns(lower, i + 1)

\* _score_file without the loop over the vendored / generated markers
_score_file_NoSkip(path, server_name) ==
    LET lower == Lower(path)
        ext == Splitext(path)
    IN  IF ext \notin _SOURCE_EXTS THEN Rejected
        ELSE SumPatterns(lower, 1)
             + (IF Truthy(server_name)
                   /\ Contains(Replace(lower, "-", "_"),
                               Replace(Lower(server_name), "-", "_"))
                THEN ServerNameScore ELSE 0)
             + (IF ext = <<".py">> THEN ExtScore
                ELSE IF ext \in {<<".ts">>, <<".tsx">>} THEN ExtScore ELSE 0)

\* _score_file comparing the server name without replacing "-" by "_"
_score_file_NoNormalize(path, server_name) ==
    LET lower == Lower(path)
        ext == Splitext(path)
    IN  IF ext \notin _SOURCE_EXTS THEN Rejected
        ELSE IF \E skip \in SkipMarkers : Contains(lower, skip) THEN Rejected
        ELSE SumPatterns(lower, 1)
             + (IF Truthy(server_name) /\ Contains(lower, Lower(server_name))
                THEN ServerNameScore ELSE 0)
             + (IF ext = <<".py">> THEN ExtScore
                ELSE IF ext \in {<<".ts">>, <<".tsx">>} THEN ExtScore ELSE 0)

_score_file(path, server_name) ==
    LET lower == Lower(path)
        ext == Splitext(path)
    IN  IF ext \notin _SOURCE_EXTS THEN Rejected
        ELSE IF \E skip \in SkipMarkers : Contains(lower, skip) THEN Rejected
        ELSE SumPatterns(lower, 1)
             + (IF Truthy(server_name)
                   /\ Contains(Replace(lower, "-", "_"),
                               Replace(Lower(server_name), "-", "_"))
                THEN ServerNameScore ELSE 0)
             + (IF ext = <<".py">> THEN ExtScore
                ELSE IF ext \in {<<".ts">>, <<".tsx">>} THEN ExtScore ELSE 0)

\* a descending sort that puts the later of two equal scores first
RECURSIVE SortByScoreDesc_Unstable(_)
SortByScoreDesc_Unstable(scored) ==
    IF scored = <<>> THEN <<>>
    ELSE LET first == CHOOSE i \in 1 .. Len(scored) :
                        /\ \A j \in 1 .. Len(scored) : scored[j][2] <= scored[i][2]
                        /\ \A j \in (i + 1) .. Len(scored) : scored[j][2] < scored[i][2]
             rest == [j \in 1 .. (Len(scored) - 1) |->
                        IF j < first THEN scored[j] ELSE scored[j + 1]]
         IN  <<scored[first]>> \o SortByScoreDesc_Unstable(rest)

\* list.sort(key=score, reverse=True): stable, descending
RECURSIVE SortByScoreDesc(_)
SortByScoreDesc(scored) ==
    IF scored = <<>> THEN <<>>
    ELSE LET first == CHOOSE i \in 1 .. Len(scored) :
                        /\ \A j \in 1 .. Len(scored) : scored[j][2] <= scored[i][2]
                        /\ \A j \in 1 .. (i - 1) : scored[j][2] < scored[i][2]
             rest == [j \in 1 .. (Len(scored) - 1) |->
                        IF j < first THEN scored[j] ELSE scored[j + 1]]
         IN  <<scored[first]>> \o SortByScoreDesc(rest)

TopN == 8

\* generate(), "Score & select relevant files"
SelectTopFiles(tree, server_name) ==
    LET scored == [i \in 1 .. Len(tree) |-> <<tree[i], _score_file(tree[i], server_name)>>]
        Keep(ps) == ps[2] >= 0
        sorted == SortByScoreDesc(SelectSeq(scored, Keep))
    IN  [i \in 1 .. Min(TopN, Len(sorted)) |-> sorted[i][1]]

----------------------------------------------------------------------------
(* json.loads on token strings *)

QUOTE == "\""
BSL == "\\"
NL == "\n"
SP == " "
FENCE == "<fence>"     \* the three-backquote marker of a fenced code block

WS == {SP, NL}
NumToks == {"0", "1", "42"}
LitToks == {"true", "false", "null"}
\* the single-character tokens that may follow a backslash inside a JSON string
Escapable == {QUOTE, BSL, "/", "n"}

Unescape(c) == IF c = "n" THEN NL ELSE c

EmptyDict == [k \in {} |-> <<>>]

JFail == [ok |-> FALSE, val |-> <<>>, next |-> 0]
JOk(v, n) == [ok |-> TRUE, val |-> v, next |-> n]

RECURSIVE SkipWs(_, _)
SkipWs(t, i) == IF i <= Len(t) /\ t[i] \in WS THEN SkipWs(t, i + 1) ELSE i

\* the characters of a string literal, from the one after its opening quote
RECURSIVE ScanStr(_, _, _)
ScanStr(t, j, acc) ==
    IF j > Len(t) THEN JFail
    ELSE IF t[j] = QUOTE THEN JOk([t |-> "str", v |-> acc], j + 1)
    ELSE IF t[j] = BSL THEN
        IF j + 1 <= Len(t) /\ t[j + 1] \in Escapable
        THEN ScanStr(t, j + 2, Append(acc, Unescape(t[j + 1])))
        ELSE JFail
    ELSE IF t[j] = NL THEN JFail        \* a raw control character
    ELSE ScanStr(t, j + 1, Append(acc, t[j]))

RECURSIVE ParseValue(_, _)
RECURSIVE ParseMembers(_, _, _, _)
RECURSIVE ParseElems(_, _, _, _)

\* after a member's value: "}" ends the object, "," asks for another member
AfterMember(t, after, d) ==
    IF after > Len(t) THEN JFail
    ELSE IF t[after] = "}" THEN JOk([t |-> "obj", v |-> d], after + 1)
    ELSE IF t[after] = "," THEN ParseMembers(t, SkipWs(t, after + 1), d, FALSE)
    ELSE JFail

\* a later member of the same name replaces the earlier one
MemberValue(t, key, val, d) ==
    IF ~val.ok THEN JFail
    ELSE AfterMember(t, SkipWs(t, val.next), (key :> val.val) @@ d)

MemberColon(t, key, colon, d) ==
    IF colon > Len(t) \/ t[colon] # ":" THEN JFail
    ELSE MemberValue(t, key, ParseValue(t, SkipWs(t, colon + 1)), d)

MemberKey(t, key, d) ==
    IF ~key.ok THEN JFail ELSE MemberColon(t, key.val.v, SkipWs(t, key.next), d)

\* the members of an object from position i; mayClose: "}" may come here
\* (right after "{"), otherwise a key must
ParseMembers(t, i, d, mayClose) ==
    IF i > Len(t) THEN JFail
    ELSE IF t[i] = "}" THEN (IF mayClose THEN JOk([t |-> "obj", v |-> d], i + 1) ELSE JFail)
    ELSE IF t[i] # QUOTE THEN JFail
    ELSE MemberKey(t, ScanStr(t, i + 1, <<>>), d)

AfterElem(t, after, acc) ==
    IF after > Len(t) THEN JFail
    ELSE IF t[after] = "]" THEN JOk([t |-> "arr", v |-> acc], after + 1)
    ELSE IF t[after] = "," THEN ParseElems(t, SkipWs(t, after + 1), acc, FALSE)
    ELSE JFail

ElemValue(t, val, acc) ==
    IF ~val.ok THEN JFail
    ELSE AfterElem(t, SkipWs(t, val.next), Append(acc, val.val))

ParseElems(t, i, acc, mayClose) ==
    IF i > Len(t) THEN JFail
    ELSE IF t[i] = "]" THEN (IF mayClose THEN JOk([t |-> "arr", v |-> acc], i + 1) ELSE JFail)
    ELSE ElemValue(t, ParseValue(t, i), acc)

ParseValue(t, i) ==
    IF i > Len(t) THEN JFail
    ELSE IF t[i] = "{" THEN ParseMembers(t, SkipWs(t, i + 1), EmptyDict, TRUE)
    ELSE IF t[i] = "[" THEN ParseElems(t, SkipWs(t, i + 1), <<>>, TRUE)
    ELSE IF t[i] = QUOTE THEN ScanStr(t, i + 1, <<>>)
    ELSE IF t[i] \in NumToks THEN JOk([t |-> "num", v |-> t[i]], i + 1)
    ELSE IF t[i] \in LitToks THEN JOk([t |-> "lit", v |-> t[i]], i + 1)
    ELSE JFail

\* json.loads(text): one value, whitespace around it, nothing else
json_loads(t) ==
    LET r == ParseValue(t, SkipWs(t, 1))
    IN  IF r.ok /\ SkipWs(t, r.next) > Len(t) THEN [ok |-> TRUE, val |-> r.val]
        ELSE [ok |-> FALSE, val |-> <<>>]

----------------------------------------------------------------------------
(* Resilient output parser *)

RequiredFields == <<"file_path", "content", "commit_message", "pr_title", "pr_body">>

JStr(tokens) == [t |-> "str", v |-> tokens]

\* Python `field not in result`, by the type json.loads returned; "TypeError"
\* where the value is not a container (int, bool, None)
NotIn(field, result) ==
    CASE result.t = "obj" -> <<field>> \notin DOMAIN result.v
      [] result.t = "arr" -> \A i \in 1 .. Len(result.v) : result.v[i] # JStr(<<field>>)
      [] result.t = "str" -> ~Contains(result.v, <<field>>)
      [] OTHER -> "TypeError"

RECURSIVE FirstMissing(_, _)
FirstMissing(result, i) ==
    IF i > Len(RequiredFields) THEN 0
    ELSE IF NotIn(RequiredFields[i], result) THEN i
    ELSE FirstMissing(result, i + 1)

PyOk(v) == [kind |-> "ok", val |-> v, msg |-> <<>>]
PyRaise(kind, msg) == [kind |-> kind, val |-> <<>>, msg |-> msg]

\* _validate_llm_result without result.setdefault("action", "modify")
_validate_llm_result_NoDefault(result) ==
    IF result.t \in {"num", "lit"} THEN PyRaise("TypeError", <<"not iterable">>)
    ELSE LET m == FirstMissing(result, 1)
         IN  IF m # 0
             THEN PyRaise("ValueError",
                          <<"LLM response missing required field:", RequiredFields[m]>>)
             ELSE IF result.t # "obj"
             THEN PyRaise("AttributeError", <<"setdefault">>)
             ELSE PyOk(result.v)

_validate_llm_result(result) ==
    IF result.t \in {"num", "lit"} THEN PyRaise("TypeError", <<"not iterable">>)
    ELSE LET m == FirstMissing(result, 1)
         IN  IF m # 0
             THEN PyRaise("ValueError",
                          <<"LLM response missing required field:", RequiredFields[m]>>)
             ELSE IF result.t # "obj"
             THEN PyRaise("AttributeError", <<"setdefault">>)
             ELSE PyOk(IF <<"action">> \in DOMAIN result.v THEN result.v
                       ELSE (<<"action">> :> JStr(<<"modify">>)) @@ result.v)

\* str.strip()
RECURSIVE RStrip(_)
RStrip(t) == IF t # <<>> /\ t[Len(t)] \in WS THEN RStrip(SubSeq(t, 1, Len(t) - 1)) ELSE t

Strip(t) == LET i == SkipWs(t, 1) IN RStrip(SubSeq(t, i, Len(t)))

\* re.sub(r"^```(?:json)?\s*", "", text), then re.sub(r"\s*```$", "", .), then strip()
StripFences(text) ==
    LET a == IF text # <<>> /\ text[1] = FENCE
             THEN LET j == IF Len(text) >= 2 /\ text[2] = "json" THEN 3 ELSE 2
                  IN  SubSeq(text, SkipWs(text, j), Len(text))
             ELSE text
        b == IF a # <<>> /\ a[Len(a)] = FENCE
             THEN RStrip(SubSeq(a, 1, Len(a) - 1))
             ELSE a
    IN  Strip(b)

\* a pass that does not track string literals and escapes
ScanStep_NoStrings(text, i, st) ==
    IF st.end # 0 THEN st
    ELSE IF text[i] = "{" THEN [st EXCEPT !.depth = @ + 1]
    ELSE IF text[i] = "}" THEN
        (IF st.depth - 1 = 0 THEN [st EXCEPT !.depth = 0, !.end = i]
         ELSE [st EXCEPT !.depth = @ - 1])
    ELSE st

\* one pass of the loop of "Try 3" on the character at i; st holds depth,
\* in_string and escape, and end: the index of the "}" at which the loop was
\* left with a candidate (0 while it is still running)
ScanStep(text, i, st) ==
    IF st.end # 0 THEN st
    ELSE IF st.escape THEN [st EXCEPT !.escape = FALSE]
    ELSE IF text[i] = BSL THEN [st EXCEPT !.escape = TRUE]
    ELSE IF text[i] = QUOTE THEN [st EXCEPT !.in_string = ~@]
    ELSE IF st.in_string THEN st
    ELSE IF text[i] = "{" THEN [st EXCEPT !.depth = @ + 1]
    ELSE IF text[i] = "}" THEN
        (IF st.depth - 1 = 0 THEN [st EXCEPT !.depth = 0, !.end = i]
         ELSE [st EXCEPT !.depth = @ - 1])
    ELSE st

\* the loop over range(lo, hi + 1), left once a candidate was found; the passes
\* are taken in order (the range is split in halves so that the evaluation
\* does not nest once per character)
RECURSIVE ScanLoop(_, _, _, _)
ScanLoop(text, lo, hi, st) ==
    IF st.end # 0 \/ lo > hi THEN st
    ELSE IF lo = hi THEN ScanStep(text, lo, st)
    ELSE ScanLoop(text, (lo + hi) \div 2 + 1, hi, ScanLoop(text, lo, (lo + hi) \div 2, st))

\* the scan of "Try 3" from index i: the index of the "}" that brings the depth
\* back to zero, or 0 when the text ends first
BraceScan(text, i, depth, in_string, escape) ==
    ScanLoop(text, i, Len(text),
             [depth |-> depth, in_string |-> in_string, escape |-> escape, end |-> 0]).end

\* a search that moves on to a later "{" when the candidate of an earlier one
\* does not load
FirstBrace_Retry(text) ==
    LET Good(i) ==
            /\ text[i] = "{"
            /\ BraceScan(text, i, 0, FALSE, FALSE) # 0
            /\ LET r == json_loads(SubSeq(text, i, BraceScan(text, i, 0, FALSE, FALSE)))
               IN  r.ok /\ _validate_llm_result(r.val).kind = "ok"
    IN  IF \E i \in 1 .. Len(text) : Good(i)
        THEN CHOOSE i \in 1 .. Len(text) : Good(i) /\ \A j \in 1 .. (i - 1) : ~Good(j)
        ELSE IF \E i \in 1 .. Len(text) : text[i] = "{"
        THEN CHOOSE i \in 1 .. Len(text) :
                text[i] = "{" /\ \A j \in 1 .. (i - 1) : text[j] # "{"
        ELSE 0

\* re.search(r"\{", text).start(), 0 when there is no match
FirstBrace(text) ==
    IF \E i \in 1 .. Len(text) : text[i] = "{"
    THEN CHOOSE i \in 1 .. Len(text) :
            text[i] = "{" /\ \A j \in 1 .. (i - 1) : text[j] # "{"
    ELSE 0

\* json.loads then _validate_llm_result inside try/except (JSONDecodeError,
\* ValueError): "pass" when either raised one of those
TryLoads(t) ==
    LET r == json_loads(t)
    IN  IF ~r.ok THEN PyRaise("pass", <<>>)
        ELSE LET v == _validate_llm_result(r.val)
             IN  IF v.kind = "ValueError" THEN PyRaise("pass", <<>>) ELSE v

PreviewLen == 300

Preview(text) ==
    SubSeq(text, 1, Min(PreviewLen, Len(text)))
        \o (IF Len(text) > PreviewLen THEN <<"...">> ELSE <<>>)

\* which of the three strategies returned (0: none did)
ParseStrategy(raw) ==
    LET text == Strip(raw)
        start == FirstBrace(text)
        end == IF start = 0 THEN 0 ELSE BraceScan(text, start, 0, FALSE, FALSE)
    IN  IF text = <<>> THEN 0
        ELSE IF TryLoads(text).kind # "pass" THEN 1
        ELSE IF TryLoads(StripFences(text)).kind # "pass" THEN 2
        ELSE IF end # 0 /\ TryLoads(SubSeq(text, start, end)).kind # "pass" THEN 3
        ELSE 0

_parse_llm_json(raw) ==
    LET text == Strip(raw)
        try1 == TryLoads(text)
        try2 == TryLoads(StripFences(text))
        start == FirstBrace(text)
        end == IF start = 0 THEN 0 ELSE BraceScan(text, start, 0, FALSE, FALSE)
        try3 == IF end = 0 THEN PyRaise("pass", <<>>)
                ELSE TryLoads(SubSeq(text, start, end))
    IN  IF text = <<>> THEN PyRaise("ValueError", <<"LLM returned an empty response">>)
        ELSE IF try1.kind # "pass" THEN try1
        ELSE IF try2.kind # "pass" THEN try2
        ELSE IF try3.kind # "pass" THEN try3
        ELSE PyRaise("ValueError",
                     <<"Could not extract JSON from LLM response.">> \o Preview(text))

----------------------------------------------------------------------------
(* Settings *)

_DB_SETTINGS_KEYS == {"github_repo", "default_branch", "llm_provider", "llm_model"}
_ENV_KEYS == {"github_pat", "anthropic_api_key", "openai_api_key"}
_ALL_SETTINGS_KEYS == _DB_SETTINGS_KEYS \cup _ENV_KEYS

\* the value of a key that is in neither the settings table nor .env
Absent == <<"<absent>">>

\* dict.get(key) used as a condition: the key is present and its value non-empty
IsSet(v) == v # Absent /\ Truthy(v)

\* settings.get(key) or default
GetOr(s, key, default) == IF IsSet(s[key]) THEN s[key] ELSE default

_PROVIDER_DEFAULTS(provider) ==
    CASE provider = <<"anthropic">> -> <<"claude-opus-4-6">>
      [] provider = <<"openai">> -> <<"GPT-5.2-Codex">>
      [] OTHER -> <<"claude-opus-4-6">>

\* (provider, model, api_key), or KeyError when the selected key is not in the dict
_get_llm_config(s) ==
    LET provider == GetOr(s, "llm_provider", <<"anthropic">>)
        model == GetOr(s, "llm_model", _PROVIDER_DEFAULTS(provider))
        field == IF provider = <<"openai">> THEN "openai_api_key" ELSE "anthropic_api_key"
    IN  [KeyError |-> s[field] = Absent, provider |-> provider, model |-> model,
         api_key |-> s[field]]

\* a mask that shows the last four characters of every value, short or long
_mask_AlwaysTail(value) ==
    <<"*", "*", "*", "*">> \o SubSeq(value, IF Len(value) <= 4 THEN 1 ELSE Len(value) - 3,
                                     Len(value))

\* _mask(value): four stars, then the last four characters of a longer value
_mask(value) ==
    IF Len(value) <= 4 THEN <<"*", "*", "*", "*">>
    ELSE <<"*", "*", "*", "*">> \o SubSeq(value, Len(value) - 3, Len(value))

\* settings.get(key, "")
GetOrEmpty(s, key) == IF s[key] = Absent THEN <<>> ELSE s[key]

\* the key get_settings looks at: settings.get("llm_provider", "anthropic"),
\* then anthropic_api_key for "anthropic" and openai_api_key for anything else
ApiKeyField(s) ==
    IF (IF s["llm_provider"] = Absent THEN <<"anthropic">> ELSE s["llm_provider"])
            = <<"anthropic">>
    THEN "anthropic_api_key" ELSE "openai_api_key"

\* GET /api/settings: every key, the secrets masked, and the configured flag
get_settings(s) ==
    [masked |-> [key \in _ALL_SETTINGS_KEYS |->
                    IF key \in _ENV_KEYS /\ Truthy(GetOrEmpty(s, key))
                    THEN _mask(GetOrEmpty(s, key))
                    ELSE GetOrEmpty(s, key)],
     configured |-> /\ IsSet(s["github_pat"])
                    /\ IsSet(s["github_repo"])
                    /\ IsSet(s[ApiKeyField(s)])]

----------------------------------------------------------------------------
(* Inputs of the model *)

ServerNames == {<<"weather", "-", "mcp">>}
GapTypes == {<<"missing", "_", "tool">>}

\* what the remote repository may hold on its base branch
PathServer == <<"src", "/", "weather", "_", "server", ".py">>
PathTool == <<"src", "/", "tool", ".ts">>
PathVendored == <<"node_modules", "/", "x", ".js">>
PathReadme == <<"README", ".md">>
PathNew == <<"new", ".py">>

RepoTrees == {<<>>, <<PathReadme, PathVendored, PathTool, PathServer>>}
FewTrees == {<<PathVendored, PathServer>>}

FileContent(path) == <<"text of">> \o path

\* model outputs
JS(w) == <<QUOTE>> \o w \o <<QUOTE>>
KV(k, v) == JS(<<k>>) \o <<":">> \o JS(v)
ProposalFor(path) ==
    KV("file_path", path) \o <<",">> \o KV("content", <<"x">>) \o <<",">>
        \o KV("commit_message", <<"Add x">>) \o <<",">> \o KV("pr_title", <<"t">>)
        \o <<",">> \o KV("pr_body", <<"b">>)

TextModify == <<"{">> \o ProposalFor(PathServer) \o <<",">> \o KV("action", <<"modify">>) \o <<"}">>
TextCreate == <<"{">> \o KV("action", <<"create">>) \o <<",">> \o ProposalFor(PathTool) \o <<"}">>
TextProse ==
    <<"Here you go:", NL, FENCE, "json", NL, "{">> \o ProposalFor(PathNew)
        \o <<"}", NL, FENCE, NL, "Hope that helps!">>
TextNoBody ==
    <<"{">> \o KV("file_path", PathNew) \o <<",">> \o KV("content", <<"x">>) \o <<",">>
        \o KV("commit_message", <<"Add x">>) \o <<",">> \o KV("pr_title", <<"t">>) \o <<"}">>
TextNumber == <<"42">>

LLMTexts == {TextModify, TextCreate, TextProse, TextNoBody, TextNumber}

\* a response status of the remote host (0: the transport failed, no response)
NoResponse == 0
Statuses == {NoResponse, 200, 401, 403, 404, 422, 500}
FewStatuses == {200, 500}

----------------------------------------------------------------------------
(* GitHub client and model provider: what the code makes of a response *)

\* GitHubClient._request: the response, or the exception raised
_request(status) ==
    IF status = NoResponse THEN PyRaise("Exception", <<"transport error">>)
    ELSE IF status = 401 THEN PyRaise("HTTPException", <<"GitHub: invalid or expired PAT">>)
    ELSE IF status = 403
    THEN PyRaise("HTTPException", <<"GitHub: PAT lacks required permissions">>)
    ELSE IF status = 404 THEN PyRaise("HTTPException", <<"GitHub: not found">>)
    ELSE IF status >= 400 THEN PyRaise("HTTPException", <<"GitHub API error", status>>)
    ELSE PyOk(status)

None == <<"<None>">>

\* GitHubClient.get_file_sha: the blob sha, None for 404, or the exception raised
get_file_sha(status, sha) ==
    IF status = NoResponse THEN PyRaise("Exception", <<"transport error">>)
    ELSE IF status = 404 THEN PyOk(None)
    ELSE IF status >= 400 THEN PyRaise("HTTPException", <<"GitHub API error", status>>)
    ELSE PyOk(sha)

\* a provider's reply: its HTTP status, how the generation ended
\* ("complete", "refusal", "truncated", "empty": no content block / no choice)
\* and the text it carries
Reply(status, ending, text) == [status |-> status, ending |-> ending, text |-> text]

_call_anthropic(reply) ==
    IF reply.status = NoResponse THEN PyRaise("Exception", <<"transport error">>)
    ELSE IF reply.status = 401 THEN PyRaise("ValueError", <<"Anthropic: invalid API key">>)
    ELSE IF reply.status >= 400
    THEN PyRaise("ValueError", <<"Anthropic API error", reply.status>>)
    ELSE IF reply.ending = "refusal"
    THEN PyRaise("ValueError", <<"Anthropic: model refused the request">>)
    ELSE IF reply.ending = "truncated"
    THEN PyRaise("ValueError", <<"Anthropic: response truncated">>)
    ELSE IF reply.ending = "empty" THEN PyOk(<<>>)
    ELSE PyOk(reply.text)

_call_openai(reply) ==
    IF reply.status = NoResponse THEN PyRaise("Exception", <<"transport error">>)
    ELSE IF reply.status = 401 THEN PyRaise("ValueError", <<"OpenAI: invalid API key">>)
    ELSE IF reply.status >= 400
    THEN PyRaise("ValueError", <<"OpenAI API error", reply.status>>)
    ELSE IF reply.ending = "empty" THEN PyRaise("ValueError", <<"OpenAI returned no choices">>)
    ELSE IF reply.ending = "refusal" THEN PyRaise("ValueError", <<"OpenAI: model refused">>)
    ELSE PyOk(reply.text)

\* the replies the provider may give
Replies ==
    {Reply(st, "complete", <<>>) : st \in {NoResponse, 401, 500}}
        \cup {Reply(200, e, TextModify) : e \in {"refusal", "truncated", "empty"}}
        \cup {Reply(200, "complete", t) : t \in LLMTexts}

FewReplies ==
    {Reply(500, "complete", <<>>)}
        \cup {Reply(200, "complete", t) : t \in {TextModify, TextCreate}}

----------------------------------------------------------------------------
(* The log of a request: the events it emitted and the calls it made *)

Ev(type, data) == [op |-> "emit", name |-> type, arg |-> data, ok |-> TRUE]
\* an awaited call: the status answered and whether the await returned (no raise)
Call(name, status, ok) == [op |-> "call", name |-> name, arg |-> <<status>>, ok |-> ok]
Local(name) == [op |-> "local", name |-> name, arg |-> <<>>, ok |-> TRUE]
\* the UPDATE of pr_url: committed (ok) or rolled back
DbWrite(ok) == [op |-> "db", name |-> "update pr_url", arg |-> <<>>, ok |-> ok]

\* generate()'s except clauses: the error event for an exception
ErrorEvent(exc) ==
    IF exc.kind \in {"ValueError", "HTTPException"} THEN Ev("error", exc.msg)
    ELSE Ev("error", <<"Unexpected error:">> \o exc.msg)

IdleRun ==
    [pc |-> "idle", status |-> 0, feedback_id |-> 0, force |-> FALSE,
     fb |-> <<>>, settings |-> <<>>, provider |-> <<>>, model |-> <<>>,
     tree |-> <<>>, top_files |-> <<>>, idx |-> 0, file_contents |-> <<>>,
     result |-> EmptyDict, branch_name |-> <<>>, base_sha |-> <<>>,
     file_sha |-> None, pr_url |-> <<>>, user_msg |-> <<>>]

----------------------------------------------------------------------------
(* State after construction *)

SettingsOf(pat, repo, provider, anthropic_key, openai_key) ==
    [k \in _ALL_SETTINGS_KEYS |->
        CASE k = "github_pat" -> pat
          [] k = "github_repo" -> repo
          [] k = "llm_provider" -> provider
          [] k = "anthropic_api_key" -> anthropic_key
          [] k = "openai_api_key" -> openai_key
          [] OTHER -> Absent]

\* deployments whose settings were saved: a PAT, a repository, and the key of
\* the selected provider
ConfiguredSettings ==
    {SettingsOf(<<"ghp">>, <<"owner/repo">>, Absent, <<"sk-ant">>, Absent),
     SettingsOf(<<"ghp">>, <<"owner/repo">>, <<"openai">>, Absent, <<"sk-oai">>)}

\* every settings state: secrets come from .env (possibly empty), preferences
\* from the settings table (never stored empty)
AnySettings ==
    {SettingsOf(pat, repo, provider, ak, ok) :
        pat \in {Absent, <<>>, <<"ghp">>},
        repo \in {Absent, <<"owner/repo">>},
        provider \in {Absent, <<"anthropic">>, <<"openai">>, <<"gemini">>},
        ak \in {Absent, <<>>, <<"sk-ant">>},
        ok \in {Absent, <<>>, <<"sk-oai">>}}

\* no function is applied on its own
NoProbe == [fn |-> "none", arg |-> <<>>, done |-> FALSE, ret |-> <<>>]
\* the function is about to be applied to arg; done once it has returned ret
Probe(fn, arg) == [fn |-> fn, arg |-> arg, done |-> FALSE, ret |-> <<>>]

\* the drop-in tool is not in use
NoDelivery == [script |-> <<>>, calls |-> <<>>]

InitWith(S, Trees) ==
    /\ probe = NoProbe
    /\ delivery = NoDelivery /\ notes = <<>>
    /\ feedback = <<>>
    /\ settings \in S
    /\ repo_tree \in Trees
    /\ now = 0
    /\ branches = {}
    /\ commits = {}
    /\ pulls = <<>>
    /\ run = [r \in Requests |-> IdleRun]
    /\ log = [r \in Requests |-> <<>>]

DefaultSettings == {SettingsOf(<<"ghp">>, <<"owner/repo">>, Absent, <<"sk-ant">>, Absent)}

Init == InitWith(DefaultSettings, FewTrees)
InitRun == InitWith(ConfiguredSettings, RepoTrees)
InitSettings == InitWith(AnySettings, FewTrees)

----------------------------------------------------------------------------
(* Operations *)

\* POST /api/feedback (authorization not configured)
create_feedback(server_name, gap_type, cap) ==
    /\ Len(feedback) < cap
    /\ feedback' = Append(feedback,
            [id |-> Len(feedback) + 1, server_name |-> server_name,
             gap_type |-> gap_type, reviewed |-> FALSE, pr_url |-> <<>>])
    /\ UNCHANGED <<settings, repo_tree, probe, delivery, now, branches, commits, pulls, run, log, notes>>

\* POST /api/feedback/{id}/notes: 404 for an unknown report (nothing written),
\* otherwise one more row in feedback_notes, stamped with the wall clock
add_note(feedback_id) ==
    /\ Len(notes) < MaxNotes
    /\ notes' = IF feedback_id \in 1 .. Len(feedback)
                THEN Append(notes, [id |-> Len(notes) + 1, feedback_id |-> feedback_id,
                                    timestamp |-> now, content |-> <<"check the schema">>])
                ELSE notes
    /\ UNCHANGED <<feedback, settings, repo_tree, probe, delivery, now, branches, commits,
                   pulls, run, log>>

\* SELECT * FROM feedback_notes WHERE feedback_id IN (id), in the order of the
\* table
IsNoteOf(id, n) == n.feedback_id = id
NoteRows(id) == SelectSeq(notes, LAMBDA n : IsNoteOf(id, n))

\* the attached form of a row: id, timestamp and content
Attached(n) == [id |-> n.id, timestamp |-> n.timestamp, content |-> n.content]

\* the notes of a report as the table holds them, without ORDER BY
NotesOf_Unordered(id) == [i \in 1 .. Len(NoteRows(id)) |-> Attached(NoteRows(id)[i])]

\* ... ORDER BY timestamp ASC (rows of equal timestamp in the order of the table)
NotesOf(id) ==
    [k \in 1 .. Len(NoteRows(id)) |->
        Attached(NoteRows(id)[
            CHOOSE i \in 1 .. Len(NoteRows(id)) :
                Cardinality({j \in 1 .. Len(NoteRows(id)) :
                    \/ NoteRows(id)[j].timestamp < NoteRows(id)[i].timestamp
                    \/ /\ NoteRows(id)[j].timestamp = NoteRows(id)[i].timestamp
                       /\ j < i}) = k - 1])]

\* _attach_notes(conn, [fb]): the row with the notes of its report under "notes"
_attach_notes(row) == [nts \in {"notes"} |-> NotesOf(row.id)] @@ row

\* str(n) of a natural number, one token per digit
Digits == <<"0", "1", "2", "3", "4", "5", "6", "7", "8", "9">>
RECURSIVE Str(_)
Str(n) == IF n < 10 THEN <<Digits[n + 1]>> ELSE Str(n \div 10) \o <<Digits[(n % 10) + 1]>>

\* content.split("\n"): the pieces between the newlines (one more than newlines)
NewlinesOf(text) == SelectSeq([i \in 1 .. Len(text) |-> i], LAMBDA i : text[i] = NL)
SplitLines(text) ==
    LET nl == NewlinesOf(text)
    IN  [k \in 1 .. (Len(nl) + 1) |->
            SubSeq(text,
                   IF k = 1 THEN 1 ELSE nl[k - 1] + 1,
                   IF k > Len(nl) THEN Len(text) ELSE nl[k] - 1)]

\* "\n".join(lines[lo .. hi]) (the range is joined by halves)
RECURSIVE JoinRange(_, _, _)
JoinRange(lines, lo, hi) ==
    IF lo > hi THEN <<>>
    ELSE IF lo = hi THEN lines[lo]
    ELSE JoinRange(lines, lo, (lo + hi) \div 2) \o <<NL>>
            \o JoinRange(lines, (lo + hi) \div 2 + 1, hi)
JoinLines(lines) == JoinRange(lines, 1, Len(lines))

TreeListingMax == 30
FileLinesMax == 500

\* a listing that never mentions the rest
TreeListing_NoCount(tree) == JoinLines(SubSeq(tree, 1, Min(TreeListingMax, Len(tree))))

\* tree[:30] joined, then the count of the rest when there is a rest
TreeListing(tree) ==
    JoinLines(SubSeq(tree, 1, Min(TreeListingMax, Len(tree))))
        \o (IF Len(tree) > TreeListingMax
            THEN <<NL, "... and">> \o Str(Len(tree) - TreeListingMax) \o <<"more files">>
            ELSE <<>>)

\* one file of the files section: its path and its first 500 lines, fenced
FileSection(path, content) ==
    <<NL, NL, "###">> \o path \o <<NL, FENCE, NL>>
        \o JoinLines(SubSeq(SplitLines(content), 1,
                            Min(FileLinesMax, Len(SplitLines(content)))))
        \o <<NL, FENCE>>

\* for path, content in file_contents.items(): files_section += ... (the
\* items are joined by halves)
RECURSIVE FilesRange(_, _, _)
FilesRange(file_contents, lo, hi) ==
    IF lo > hi THEN <<>>
    ELSE IF lo = hi THEN FileSection(file_contents[lo][1], file_contents[lo][2])
    ELSE FilesRange(file_contents, lo, (lo + hi) \div 2)
            \o FilesRange(file_contents, (lo + hi) \div 2 + 1, hi)

\* the notes section: its heading, then one line per attached note
NoteLine(n) == <<NL, "- [">> \o Str(n.timestamp) \o <<"]">> \o n.content
RECURSIVE NoteLines(_, _)
NoteLines(ns, i) == IF i > Len(ns) THEN <<>> ELSE NoteLine(ns[i]) \o NoteLines(ns, i + 1)
NotesSection(ns) ==
    IF ns = <<>> THEN <<>>
    ELSE <<NL, NL, "## Developer notes", NL,
           "These are human-written annotations from the developer", NL>>
            \o NoteLines(ns, 1)

\* _build_user_message(feedback, tree, file_contents); file_contents as the
\* sequence of its (path, content) items in insertion order
_build_user_message(fb, tree, file_contents) ==
    <<"## Feedback about MCP server:">> \o fb.server_name \o <<NL, NL>>
        \o <<"**Gap type:**">> \o fb.gap_type \o <<NL>>
        \o <<"**What the agent needed:**", NL, "**What the agent tried:**", NL,
             "**Suggestion:**", NL, "**User goal:**", NL, "**Resolution:**", NL,
             "**Client type:**", NL>>
        \o NotesSection(fb.notes)
        \o <<NL, "## Repository file tree", NL>>
        \o TreeListing(tree)
        \o <<NL, NL, "## Relevant source files", NL>>
        \o FilesRange(file_contents, 1, Len(file_contents))

\* generate(): the step announced when the report has notes
NotesStep(fb) ==
    IF fb.notes # <<>> THEN <<Ev("step", <<"Including developer notes">>)>> ELSE <<>>

\* the wall clock advances
Tick ==
    /\ now < MaxClock
    /\ now' = now + 1
    /\ UNCHANGED <<feedback, settings, repo_tree, probe, delivery, branches, commits, pulls, run, log, notes>>

\* the wall clock is set back (datetime.now() reads a clock that is not monotonic)
ClockSetBack ==
    /\ now > 0
    /\ now' = now - 1
    /\ UNCHANGED <<feedback, settings, repo_tree, probe, delivery, branches, commits, pulls, run, log, notes>>

\* draft_pr without its idempotency guard (the 409)
PreflightStatus_NoGuard(feedback_id, force) ==
    LET cfg == _get_llm_config(settings)
    IN  IF feedback_id \notin 1 .. Len(feedback) THEN 404
        ELSE IF cfg.KeyError THEN 500
        ELSE IF ~(IsSet(settings["github_pat"]) /\ IsSet(settings["github_repo"])
                  /\ Truthy(cfg.api_key)) THEN 400
        ELSE 200

\* draft_pr without the check of the selected provider's key
PreflightStatus_NoKeyCheck(feedback_id, force) ==
    LET cfg == _get_llm_config(settings)
    IN  IF feedback_id \notin 1 .. Len(feedback) THEN 404
        ELSE IF force = FALSE /\ Truthy(feedback[feedback_id].pr_url) THEN 409
        ELSE IF cfg.KeyError THEN 500
        ELSE IF ~(IsSet(settings["github_pat"]) /\ IsSet(settings["github_repo"]))
             THEN 400
        ELSE 200

\* the response of draft_pr before any stream: 404, 409, 500 (KeyError in
\* _get_llm_config), 400, or 200 (the StreamingResponse)
PreflightStatus(feedback_id, force) ==
    LET cfg == _get_llm_config(settings)
    IN  IF feedback_id \notin 1 .. Len(feedback) THEN 404
        ELSE IF Truthy(feedback[feedback_id].pr_url) /\ ~force THEN 409
        ELSE IF cfg.KeyError THEN 500
        ELSE IF ~(IsSet(settings["github_pat"]) /\ IsSet(settings["github_repo"])
                  /\ Truthy(cfg.api_key)) THEN 400
        ELSE 200

\* POST /api/feedback/{feedback_id}/draft-pr, up to the first await of generate()
draft_pr(r, feedback_id, force) ==
    LET st == PreflightStatus(feedback_id, force)
        cfg == _get_llm_config(settings)
    IN  /\ run[r].pc = "idle"
        /\ \A q \in Requests : q < r => run[q].pc # "idle"
        /\ IF st # 200
           THEN /\ run' = [run EXCEPT ![r] = [@ EXCEPT !.pc = "rejected", !.status = st,
                                !.feedback_id = feedback_id, !.force = force]]
                /\ UNCHANGED log
           ELSE /\ run' = [run EXCEPT ![r] = [@ EXCEPT !.pc = "get_tree", !.status = st,
                                !.feedback_id = feedback_id, !.force = force,
                                !.fb = _attach_notes(feedback[feedback_id]),
                                !.settings = settings,
                                !.provider = cfg.provider, !.model = cfg.model]]
                /\ log' = [log EXCEPT ![r] = <<Ev("step", <<"Fetching file tree">>)>>]
        /\ UNCHANGED <<feedback, settings, repo_tree, probe, delivery, now, branches, commits, pulls, notes>>

\* the run ends in an except clause of generate(): one error event, then finally
\* generate() without its catch-all clause: only ValueError and HTTPException
\* are reported
Fails_NoCatchAll(r, done, exc) ==
    /\ run' = [run EXCEPT ![r] = [@ EXCEPT !.pc = "failed"]]
    /\ log' = [log EXCEPT ![r] = @ \o done
                \o (IF exc.kind \in {"ValueError", "HTTPException"}
                    THEN <<ErrorEvent(exc)>> ELSE <<>>)
                \o <<Local("close")>>]

\* generate() reporting a failure and attempting the failed step again
Fails_Retry(r, done, exc) ==
    /\ run' = run
    /\ log' = [log EXCEPT ![r] = @ \o done \o <<ErrorEvent(exc)>>]

Fails(r, done, exc) ==
    /\ run' = [run EXCEPT ![r] = [@ EXCEPT !.pc = "failed"]]
    /\ log' = [log EXCEPT ![r] = @ \o done \o <<ErrorEvent(exc), Local("close")>>]

\* after the reads: the "Calling" step is emitted, then the prompt is built
\* generate() without the "Calling" step event
BeforeModelCall_Silent == <<Local("_build_user_message")>>

BeforeModelCall ==
    <<Ev("step", <<"Calling model">>), Local("_build_user_message")>>

\* await gh.get_tree(base_branch), then scoring and selection
generate_get_tree(r, status) ==
    LET resp == _request(status)
        tree == repo_tree
        top == SelectTopFiles(tree, run[r].fb.server_name)
        done == <<Call("get_tree", status, resp.kind = "ok")>>
    IN  /\ run[r].pc = "get_tree"
        /\ IF resp.kind # "ok"
           THEN Fails(r, done, resp)
           ELSE /\ run' = [run EXCEPT ![r] = [@ EXCEPT
                            !.pc = IF top = <<>> THEN "llm" ELSE "read_file",
                            !.tree = tree, !.top_files = top, !.idx = 1,
                            !.user_msg = IF top = <<>>
                                         THEN _build_user_message(run[r].fb, tree, <<>>)
                                         ELSE @]]
                /\ log' = [log EXCEPT ![r] = @ \o done
                            \o <<Ev("step", <<"Found files">>), Local("select"),
                                 Ev("step", <<"Reading files">>)>>
                            \o (IF top = <<>> THEN NotesStep(run[r].fb) \o BeforeModelCall
                                ELSE <<>>)]
        /\ UNCHANGED <<feedback, settings, repo_tree, probe, delivery, now, branches, commits, pulls, notes>>

\* the read loop without its except clause: a failed read ends the run
generate_read_file_Abort(r, status) ==
    LET resp == _request(status)
        path == run[r].top_files[run[r].idx]
        last == run[r].idx = Len(run[r].top_files)
        done == <<Call("read_file", status, resp.kind = "ok")>>
    IN  /\ run[r].pc = "read_file"
        /\ IF resp.kind # "ok" THEN Fails(r, done, resp)
           ELSE /\ run' = [run EXCEPT ![r] = [@ EXCEPT
                            !.pc = IF last THEN "llm" ELSE "read_file",
                            !.idx = @ + 1,
                            !.file_contents = Append(@, <<path, FileContent(path)>>),
                            !.user_msg = IF last
                                         THEN _build_user_message(run[r].fb, run[r].tree,
                                                Append(run[r].file_contents,
                                                       <<path, FileContent(path)>>))
                                         ELSE @]]
                /\ log' = [log EXCEPT ![r] = @ \o done
                            \o <<Ev("detail", <<"read">> \o path)>>
                            \o (IF last THEN NotesStep(run[r].fb) \o BeforeModelCall ELSE <<>>)]
        /\ UNCHANGED <<feedback, settings, repo_tree, probe, delivery, now, branches, commits, pulls, notes>>

\* await gh.read_file(path, base_branch) for the next selected file; any
\* exception skips the file
generate_read_file(r, status) ==
    LET resp == _request(status)
        path == run[r].top_files[run[r].idx]
        last == run[r].idx = Len(run[r].top_files)
        done == <<Call("read_file", status, resp.kind = "ok")>>
    IN  /\ run[r].pc = "read_file"
        /\ run' = [run EXCEPT ![r] = [@ EXCEPT
                    !.pc = IF last THEN "llm" ELSE "read_file",
                    !.idx = @ + 1,
                    !.file_contents = IF resp.kind = "ok"
                                      THEN Append(@, <<path, FileContent(path)>>)
                                      ELSE @,
                    !.user_msg = IF last
                                 THEN _build_user_message(run[r].fb, run[r].tree,
                                        IF resp.kind = "ok"
                                        THEN Append(run[r].file_contents,
                                                    <<path, FileContent(path)>>)
                                        ELSE run[r].file_contents)
                                 ELSE @]]
        /\ log' = [log EXCEPT ![r] = @ \o done
                    \o (IF resp.kind = "ok" THEN <<Ev("detail", <<"read">> \o path)>> ELSE <<>>)
                    \o (IF last THEN NotesStep(run[r].fb) \o BeforeModelCall ELSE <<>>)]
        /\ UNCHANGED <<feedback, settings, repo_tree, probe, delivery, now, branches, commits, pulls, notes>>

\* strftime("%m%d%H%M") of the clock: the minute, whatever the tick within it
Timestamp(clock) == clock \div TicksPerMinute

\* f"patchwork/feedback-{feedback_id[:8]}-{branch_suffix}-{ts}"; a report's id
\* stands for its first eight characters
BranchName(feedback_id, gap_type, clock) ==
    <<"patchwork/feedback-", feedback_id, "-">> \o Replace(gap_type, "_", "-")
        \o <<"-", Timestamp(clock)>>

\* await _call_openai / _call_anthropic, then _parse_llm_json and the branch name
generate_call_llm(r, reply) ==
    LET raw == IF run[r].provider = <<"openai">> THEN _call_openai(reply)
               ELSE _call_anthropic(reply)
        parsed == _parse_llm_json(raw.val)
        done == <<Call("llm", reply.status, raw.kind = "ok")>>
        validating == <<Ev("step", <<"Validating response">>),
                        [Local("_parse_llm_json") EXCEPT !.ok = parsed.kind = "ok"]>>
    IN  /\ run[r].pc = "llm"
        /\ IF raw.kind # "ok" THEN Fails(r, done, raw)
           ELSE IF parsed.kind # "ok" THEN Fails(r, done \o validating, parsed)
           ELSE /\ run' = [run EXCEPT ![r] = [@ EXCEPT
                            !.pc = "get_branch_sha", !.result = parsed.val,
                            !.tree = <<>>, !.top_files = <<>>, !.idx = 0,
                            !.file_contents = <<>>,
                            !.branch_name =
                                BranchName(run[r].feedback_id, run[r].fb.gap_type, now)]]
                /\ log' = [log EXCEPT ![r] = @ \o done \o validating
                            \o <<Ev("step", <<"LLM suggests">>),
                                 Ev("step", <<"Creating branch">>)>>]
        /\ UNCHANGED <<feedback, settings, repo_tree, probe, delivery, now, branches, commits, pulls, notes>>

\* await gh.get_branch_sha(base_branch)
generate_get_branch_sha(r, status) ==
    LET resp == _request(status)
        done == <<Call("get_branch_sha", status, resp.kind = "ok")>>
    IN  /\ run[r].pc = "get_branch_sha"
        /\ IF resp.kind # "ok" THEN Fails(r, done, resp)
           ELSE /\ run' = [run EXCEPT ![r] = [@ EXCEPT
                            !.pc = "create_branch", !.base_sha = <<"base sha">>]]
                /\ log' = [log EXCEPT ![r] = @ \o done]
        /\ UNCHANGED <<feedback, settings, repo_tree, probe, delivery, now, branches, commits, pulls, notes>>

\* the statuses the remote host may answer a branch creation with: it refuses
\* a name that exists (422)
CreateBranchStatuses(name) ==
    IF name \in branches THEN Statuses \ {200} ELSE Statuses

\* generate() going from the new branch straight to the pull request
AfterBranch_SkipCommit(result) == "create_draft_pr"

\* generate() looking up the blob sha whatever the action is
AfterBranch_AlwaysLookup(result) == "get_file_sha"

\* what follows the branch: the blob sha is looked up only for action "modify"
AfterBranch(result) ==
    IF result[<<"action">>] = JStr(<<"modify">>) THEN "get_file_sha" ELSE "upsert_file"

\* generate() carrying on with the commit when the branch creation was refused
generate_create_branch_Proceed(r, status) ==
    LET resp == _request(status)
        done == <<Call("create_branch", status, resp.kind = "ok")>>
    IN  /\ run[r].pc = "create_branch"
        /\ status \in CreateBranchStatuses(run[r].branch_name)
        /\ branches' = IF resp.kind = "ok" THEN branches \cup {run[r].branch_name}
                       ELSE branches
        /\ run' = [run EXCEPT ![r] = [@ EXCEPT !.pc = AfterBranch(run[r].result)]]
        /\ log' = [log EXCEPT ![r] = @ \o done \o <<Ev("step", <<"Committing">>)>>]
        /\ UNCHANGED <<feedback, settings, repo_tree, probe, delivery, now, commits, pulls, notes>>

\* await gh.create_branch(branch_name, base_sha)
generate_create_branch(r, status) ==
    LET resp == _request(status)
        done == <<Call("create_branch", status, resp.kind = "ok")>>
    IN  /\ run[r].pc = "create_branch"
        /\ status \in CreateBranchStatuses(run[r].branch_name)
        /\ IF resp.kind # "ok"
           THEN Fails(r, done, resp) /\ UNCHANGED branches
           ELSE /\ branches' = branches \cup {run[r].branch_name}
                /\ run' = [run EXCEPT ![r] = [@ EXCEPT
                            !.pc = AfterBranch(run[r].result)]]
                /\ log' = [log EXCEPT ![r] = @ \o done \o <<Ev("step", <<"Committing">>)>>]
        /\ UNCHANGED <<feedback, settings, repo_tree, probe, delivery, now, commits, pulls, notes>>

\* the statuses the remote host may answer a contents lookup with: 200 when
\* the path is on the base branch, 404 when it is not
FileShaStatuses(path) ==
    (Statuses \ {200, 404})
        \cup (IF \E i \in 1 .. Len(repo_tree) : JStr(repo_tree[i]) = path
              THEN {200} ELSE {404})

\* await gh.get_file_sha(result["file_path"], base_branch), for action modify
generate_get_file_sha(r, status) ==
    LET resp == get_file_sha(status, <<"blob sha">>)
        done == <<Call("get_file_sha", status, resp.kind = "ok")>>
    IN  /\ run[r].pc = "get_file_sha"
        /\ status \in FileShaStatuses(run[r].result[<<"file_path">>])
        /\ IF resp.kind # "ok" THEN Fails(r, done, resp)
           ELSE /\ run' = [run EXCEPT ![r] = [@ EXCEPT
                            !.pc = "upsert_file", !.file_sha = resp.val]]
                /\ log' = [log EXCEPT ![r] = @ \o done]
        /\ UNCHANGED <<feedback, settings, repo_tree, probe, delivery, now, branches, commits, pulls, notes>>

\* GitHubClient.upsert_file: the body of the PUT ("sha" only when given)
upsert_file(path, content, message, branch, sha) ==
    [path |-> path, content |-> content, message |-> message, branch |-> branch,
     sha |-> IF sha # None /\ Truthy(sha) THEN sha ELSE None]

\* await gh.upsert_file(...)
generate_upsert_file(r, status) ==
    LET resp == _request(status)
        done == <<Call("upsert_file", status, resp.kind = "ok")>>
        res == run[r].result
    IN  /\ run[r].pc = "upsert_file"
        /\ IF resp.kind # "ok"
           THEN Fails(r, done, resp) /\ UNCHANGED commits
           ELSE /\ commits' = commits \cup
                        {upsert_file(res[<<"file_path">>], res[<<"content">>],
                                     res[<<"commit_message">>], run[r].branch_name,
                                     run[r].file_sha)}
                /\ run' = [run EXCEPT ![r] = [@ EXCEPT !.pc = "create_draft_pr"]]
                /\ log' = [log EXCEPT ![r] = @ \o done
                            \o <<Ev("step", <<"Opening draft pull request">>)>>]
        /\ UNCHANGED <<feedback, settings, repo_tree, probe, delivery, now, branches, pulls, notes>>

\* resp.json()["html_url"] of the pull request the host numbered n
HtmlUrl(n) == <<"https://github.com/owner/repo/pull/", n>>

\* get_db() committing whatever happened inside the block (no rollback)
DbUpdate_NoRollback(table, id, pr_url, db_ok) ==
    [table EXCEPT ![id].pr_url = pr_url]

\* an UPDATE that only fills an empty pr_url (... WHERE id = ? AND pr_url is empty)
DbUpdate_KeepPrior(table, id, pr_url, db_ok) ==
    IF db_ok /\ ~Truthy(table[id].pr_url)
    THEN [table EXCEPT ![id].pr_url = pr_url] ELSE table

\* an UPDATE without its WHERE clause: every report gets the pr_url
DbUpdate_AllRows(table, id, pr_url, db_ok) ==
    IF db_ok THEN [i \in DOMAIN table |-> [table[i] EXCEPT !.pr_url = pr_url]] ELSE table

\* with get_db() as conn: conn.execute("UPDATE feedback SET pr_url = ? WHERE id = ?"):
\* committed, or rolled back when the statement or the commit raised
DbUpdate(table, id, pr_url, db_ok) ==
    IF db_ok THEN [table EXCEPT ![id].pr_url = pr_url] ELSE table

\* await gh.create_draft_pr(...), then UPDATE feedback SET pr_url, then done
generate_create_draft_pr(r, status, db_ok) ==
    LET resp == _request(status)
        done == <<Call("create_draft_pr", status, resp.kind = "ok")>>
        pr_url == HtmlUrl(Len(pulls) + 1)
        id == run[r].feedback_id
    IN  /\ run[r].pc = "create_draft_pr"
        /\ IF resp.kind # "ok"
           THEN Fails(r, done, resp) /\ UNCHANGED <<pulls, feedback>>
           ELSE /\ pulls' = Append(pulls,
                        [title |-> run[r].result[<<"pr_title">>],
                         body |-> run[r].result[<<"pr_body">>],
                         head |-> run[r].branch_name,
                         base |-> GetOr(run[r].settings, "default_branch", <<"main">>),
                         draft |-> TRUE])
                /\ feedback' = DbUpdate(feedback, id, pr_url, db_ok)
                /\ IF db_ok
                   THEN /\ run' = [run EXCEPT ![r] = [@ EXCEPT
                                    !.pc = "done", !.pr_url = pr_url]]
                        /\ log' = [log EXCEPT ![r] = @ \o done
                                    \o <<DbWrite(TRUE),
                                         Ev("done", [pr_url |-> pr_url,
                                                     branch |-> run[r].branch_name]),
                                         Local("close")>>]
                   ELSE Fails(r, done \o <<DbWrite(FALSE)>>,
                              PyRaise("Exception", <<"database error">>))
        /\ UNCHANGED <<settings, repo_tree, probe, delivery, now, branches, commits, notes>>

\* the client disconnects while generate() is suspended: the generator is
\* closed at that point, no except clause applies, and finally closes gh
InFlight ==
    {"get_tree", "read_file", "llm", "get_branch_sha", "create_branch",
     "get_file_sha", "upsert_file", "create_draft_pr"}

\* a disconnect after which the run's branch and commits are removed again
cancel_Cleanup(r) ==
    /\ run[r].pc \in InFlight
    /\ run' = [run EXCEPT ![r] = [@ EXCEPT !.pc = "cancelled"]]
    /\ log' = [log EXCEPT ![r] = @ \o <<Local("close")>>]
    /\ branches' = branches \ {run[r].branch_name}
    /\ commits' = {c \in commits : c.branch # run[r].branch_name}
    /\ UNCHANGED <<feedback, settings, repo_tree, probe, delivery, now, pulls, notes>>

cancel(r) ==
    /\ run[r].pc \in InFlight
    /\ run' = [run EXCEPT ![r] = [@ EXCEPT !.pc = "cancelled"]]
    /\ log' = [log EXCEPT ![r] = @ \o <<Local("close")>>]
    /\ UNCHANGED <<feedback, settings, repo_tree, probe, delivery, now, branches, commits, pulls, notes>>

\* the operations, with the requests, the table size, the statuses and the
\* provider replies drawn from the given sets
NextWith(R, cap, St, Reps) ==
    \/ \E sn \in ServerNames, gt \in GapTypes : create_feedback(sn, gt, cap)
    \/ Tick
    \/ \E r \in R, id \in 1 .. (cap + 1), force \in BOOLEAN : draft_pr(r, id, force)
    \/ \E r \in R, st \in St : generate_get_tree(r, st)
    \/ \E r \in R, st \in St : generate_read_file(r, st)
    \/ \E r \in R, reply \in Reps : generate_call_llm(r, reply)
    \/ \E r \in R, st \in St : generate_get_branch_sha(r, st)
    \/ \E r \in R, st \in St \cup {422} : generate_create_branch(r, st)
    \/ \E r \in R, st \in St \cup {404} : generate_get_file_sha(r, st)
    \/ \E r \in R, st \in St : generate_upsert_file(r, st)
    \/ \E r \in R, st \in St, db_ok \in BOOLEAN : generate_create_draft_pr(r, st, db_ok)
    \/ \E r \in R : cancel(r)

\* overlapping requests on one report
Next == NextWith(Requests, MaxShared, FewStatuses, FewReplies)
Spec == Init /\ [][Next]_vars

\* one request, every status and reply
NextRun == NextWith({1}, MaxFeedback, Statuses, Replies)
SpecRun == InitRun /\ [][NextRun]_vars

\* one request, under every settings state
NextSettings == NextWith({1}, MaxShared, FewStatuses, FewReplies)
SpecSettings == InitSettings /\ [][NextSettings]_vars

\* one request among two reports, with developer notes
InitNotes == InitWith(DefaultSettings, FewTrees)
NextNotes ==
    \/ NextWith({1}, MaxFeedback, FewStatuses, FewReplies)
    \/ \E id \in 1 .. MaxFeedback : add_note(id)
    \/ ClockSetBack
SpecNotes == InitNotes /\ [][NextNotes]_vars

----------------------------------------------------------------------------
(* The output parser applied on its own to model texts *)

RECURSIVE Members(_)
Members(kvs) ==
    IF kvs = <<>> THEN <<>>
    ELSE KV(kvs[1][1], kvs[1][2])
            \o (IF Len(kvs) > 1 THEN <<",">> \o Members(Tail(kvs)) ELSE <<>>)

Obj(kvs) == <<"{">> \o Members(kvs) \o <<"}">>

\* file contents as written inside a JSON string (enc) and as the text they
\* stand for (dec): plain, with braces, with escaped quotes and a brace, ending
\* in an escaped backslash
Contents ==
    {[enc |-> <<"x">>, dec |-> <<"x">>],
     [enc |-> <<"}", "a", BSL, BSL>>, dec |-> <<"}", "a", BSL>>],
     [enc |-> <<"if", "{", "}", "}">>, dec |-> <<"if", "{", "}", "}">>],
     [enc |-> <<"say", BSL, QUOTE, "hi", BSL, QUOTE, "{">>,
      dec |-> <<"say", QUOTE, "hi", QUOTE, "{">>]}

NoAction == <<>>
Actions == {NoAction, <<"create">>, <<"modify">>, <<"delete">>}

\* an edit proposal: the path, the content and the action (if any)
Proposals ==
    {[path |-> PathNew, content |-> c, action |-> a] : c \in Contents, a \in Actions}

FieldsOf(p) ==
    << <<"file_path", p.path>>, <<"content", p.content.enc>>,
       <<"commit_message", <<"Add x">>>>, <<"pr_title", <<"t">>>>,
       <<"pr_body", <<"b">>>> >>
        \o (IF p.action = NoAction THEN <<>> ELSE << <<"action", p.action>> >>)

ProposalText(p) == Obj(FieldsOf(p))

\* the proposal with its i-th required field left out
Without(seq, i) == SubSeq(seq, 1, i - 1) \o SubSeq(seq, i + 1, Len(seq))
LackingText(p, i) == Obj(Without(FieldsOf(p), i))

\* how a model may wrap the object it returns
Wrappers ==
    {"bare", "padded", "fenced", "fenced json", "fenced python", "prose",
     "prose fenced trailing", "prose with braces", "prose with open brace",
     "trailing", "prose trailing"}

Wrap(w, t) ==
    CASE w = "bare" -> t
      [] w = "padded" -> <<NL>> \o t \o <<SP, NL>>
      [] w = "fenced" -> <<FENCE, NL>> \o t \o <<NL, FENCE>>
      [] w = "fenced json" -> <<FENCE, "json", NL>> \o t \o <<NL, FENCE>>
      [] w = "fenced python" -> <<FENCE, "python", NL>> \o t \o <<NL, FENCE>>
      [] w = "prose" -> <<"Here you go:", NL>> \o t
      [] w = "prose fenced trailing" ->
            <<"Here you go:", NL, FENCE, "json", NL>> \o t
                \o <<NL, FENCE, NL, "Hope that helps!">>
      [] w = "prose with braces" -> <<"Use", SP, "{", "x", "}", SP, "here:", NL>> \o t
      [] w = "prose with open brace" -> <<"Set", SP, "{", SP, "first:", NL>> \o t
      [] w = "trailing" -> t \o <<NL, "Done.">>
      [] w = "prose trailing" ->
            <<"Here", QUOTE, "you go:", NL>> \o t \o <<NL, "}", QUOTE, "{", "Done.">>

\* texts that are valid JSON but no object, and texts that are no JSON
LongText == [i \in 1 .. (PreviewLen + 1) |-> "x"]
AllFieldNames == <<"file_path", SP, "content", SP, "commit_message", SP, "pr_title", SP, "pr_body">>
OtherTexts ==
    {<<>>, <<SP, NL>>, <<"42">>, <<"null">>, <<"true">>, JS(<<"abc">>),
     JS(AllFieldNames), <<"[", "]">>, <<"[", "42", "]">>,
     <<"[">> \o JS(<<"file_path">>) \o <<",">> \o JS(<<"content">>) \o <<",">>
         \o JS(<<"commit_message">>) \o <<",">> \o JS(<<"pr_title">>) \o <<",">>
         \o JS(<<"pr_body">>) \o <<"]">>,
     <<"{", "}">>, <<"I cannot help with that.">>, <<"{">>, LongText}

LackingWrappers == {"bare", "fenced json", "prose"}

ParserTexts ==
    {Wrap(w, ProposalText(p)) : w \in Wrappers, p \in Proposals}
        \cup {Wrap(w, LackingText(p, i)) :
                w \in LackingWrappers, p \in {q \in Proposals : q.content.enc = <<"x">>},
                i \in 1 .. Len(RequiredFields)}
        \cup OtherTexts

\* result = _parse_llm_json(raw_text)
apply_parse_llm_json ==
    /\ probe.fn = "_parse_llm_json" /\ ~probe.done
    /\ probe' = [probe EXCEPT !.done = TRUE, !.ret = _parse_llm_json(probe.arg)]
    /\ UNCHANGED <<feedback, settings, repo_tree, now, branches, commits, pulls, run, log,
                 delivery, notes>>

InitParser ==
    /\ probe \in {Probe("_parse_llm_json", t) : t \in ParserTexts}
    /\ delivery = NoDelivery /\ notes = <<>>
    /\ feedback = <<>> /\ settings \in DefaultSettings /\ repo_tree = <<>>
    /\ now = 0 /\ branches = {} /\ commits = {} /\ pulls = <<>>
    /\ run = [r \in Requests |-> IdleRun]
    /\ log = [r \in Requests |-> <<>>]

NextParser == apply_parse_llm_json
SpecParser == InitParser /\ [][NextParser]_vars

----------------------------------------------------------------------------
(* The relevance scorer and the selection applied on their own *)

Dirs ==
    {<<>>, <<"src", "/">>, <<"node_modules", "/">>, <<"vendor", "/">>, <<".git", "/">>,
     <<"__pycache__", "/">>, <<"dist", "/">>, <<"build", "/">>,
     <<"lib", "/", "dist", "/">>, <<"weather", "-", "mcp", "/">>}
Stems ==
    {<<"weather", "_", "server">>, <<"weather", "-", "mcp">>, <<"weather", "_", "MCP">>,
     <<"tool", "_", "handler">>, <<"index">>}
Exts == {".py", ".ts", ".js", ".md", ".PY"}

ScorerPaths == {d \o st \o <<e>> : d \in Dirs, st \in Stems, e \in Exts}
ScorerNames ==
    {<<>>, <<"weather", "-", "mcp">>, <<"weather", "_", "mcp">>, <<"weather", "-", "MCP">>,
     <<"billing">>}

\* trees: every sequence of up to MaxTreeLen paths of a pool without
\* repetition, and two trees with more eligible paths than are selected
MaxTreeLen == 2
TreePool ==
    {PathServer, PathVendored, PathTool, PathReadme, <<"weather", "_", "mcp", ".py">>,
     <<"src", "/", "index", ".py">>, <<"src", "/", "main", ".ts">>}
SmallTrees ==
    UNION {{t \in [1 .. n -> TreePool] : \A i, j \in 1 .. n : i # j => t[i] # t[j]} :
            n \in 0 .. MaxTreeLen}
BigTree ==
    <<<<"a", ".py">>, <<"b", ".ts">>, PathVendored, <<"c", ".js">>, PathTool,
      <<"d", ".py">>, <<"e", ".go">>, PathServer, <<"f", ".py">>, <<"g", ".js">>,
      PathReadme, <<"h", ".ts">>, <<"i", ".rb">>, <<"schema", ".py">>>>
Reverse(seq) == [i \in 1 .. Len(seq) |-> seq[Len(seq) + 1 - i]]
ScorerTrees == SmallTrees \cup {BigTree, Reverse(BigTree)}

\* _score_file(path, server_name)
apply_score_file ==
    /\ probe.fn = "_score_file" /\ ~probe.done
    /\ probe' = [probe EXCEPT !.done = TRUE,
                              !.ret = _score_file(probe.arg[1], probe.arg[2])]
    /\ UNCHANGED <<feedback, settings, repo_tree, now, branches, commits, pulls, run, log,
                 delivery, notes>>

\* generate(): scored, filtered, sorted, top_files
apply_select ==
    /\ probe.fn = "select" /\ ~probe.done
    /\ probe' = [probe EXCEPT !.done = TRUE,
                              !.ret = SelectTopFiles(probe.arg[1], probe.arg[2])]
    /\ UNCHANGED <<feedback, settings, repo_tree, now, branches, commits, pulls, run, log,
                 delivery, notes>>

InitScorer ==
    /\ \/ probe \in {Probe("_score_file", <<path, name>>) :
                        path \in ScorerPaths, name \in ScorerNames}
       \/ probe \in {Probe("select", <<tree, name>>) :
                        tree \in ScorerTrees, name \in {<<>>, <<"weather", "-", "mcp">>}}
    /\ delivery = NoDelivery /\ notes = <<>>
    /\ feedback = <<>> /\ settings \in DefaultSettings /\ repo_tree = <<>>
    /\ now = 0 /\ branches = {} /\ commits = {} /\ pulls = <<>>
    /\ run = [r \in Requests |-> IdleRun]
    /\ log = [r \in Requests |-> <<>>]

NextScorer == apply_score_file \/ apply_select
SpecScorer == InitScorer /\ [][NextScorer]_vars

----------------------------------------------------------------------------
(* The GitHub client and the provider calls applied on their own *)

ClientOps ==
    {"get_tree", "read_file", "get_file_sha", "get_branch_sha", "create_branch",
     "upsert_file", "create_draft_pr"}
ClientStatuses == Statuses \cup {201, 400, 409, 429, 502, 503}
BlobSha == <<"sha-of-blob">>

\* what a client method makes of the response: the six built on _request,
\* and get_file_sha, which reads the status itself
ClientOp(op, status) ==
    IF op = "get_file_sha" THEN get_file_sha(status, BlobSha) ELSE _request(status)

apply_client_op ==
    /\ probe.fn \in ClientOps /\ ~probe.done
    /\ probe' = [probe EXCEPT !.done = TRUE, !.ret = ClientOp(probe.fn, probe.arg)]
    /\ UNCHANGED <<feedback, settings, repo_tree, now, branches, commits, pulls, run, log,
                 delivery, notes>>

PartialText == SubSeq(TextModify, 1, 9)
ProviderReplies ==
    {Reply(st, e, t) :
        st \in {NoResponse, 200, 401, 403, 429, 500},
        e \in {"complete", "refusal", "truncated", "empty"},
        t \in {TextModify, PartialText, <<>>}}

apply_call_anthropic ==
    /\ probe.fn = "_call_anthropic" /\ ~probe.done
    /\ probe' = [probe EXCEPT !.done = TRUE, !.ret = _call_anthropic(probe.arg)]
    /\ UNCHANGED <<feedback, settings, repo_tree, now, branches, commits, pulls, run, log,
                 delivery, notes>>

apply_call_openai ==
    /\ probe.fn = "_call_openai" /\ ~probe.done
    /\ probe' = [probe EXCEPT !.done = TRUE, !.ret = _call_openai(probe.arg)]
    /\ UNCHANGED <<feedback, settings, repo_tree, now, branches, commits, pulls, run, log,
                 delivery, notes>>

InitUpstream ==
    /\ \/ probe \in {Probe(op, st) : op \in ClientOps, st \in ClientStatuses}
       \/ probe \in {Probe(fn, reply) :
                        fn \in {"_call_anthropic", "_call_openai"},
                        reply \in ProviderReplies}
    /\ delivery = NoDelivery /\ notes = <<>>
    /\ feedback = <<>> /\ settings \in DefaultSettings /\ repo_tree = <<>>
    /\ now = 0 /\ branches = {} /\ commits = {} /\ pulls = <<>>
    /\ run = [r \in Requests |-> IdleRun]
    /\ log = [r \in Requests |-> <<>>]

NextUpstream == apply_client_op \/ apply_call_anthropic \/ apply_call_openai
SpecUpstream == InitUpstream /\ [][NextUpstream]_vars

----------------------------------------------------------------------------
(* The drop-in feedback tool: send_feedback and send_feedback_sync *)

_MAX_RETRIES == 2
_INITIAL_BACKOFF == 500    \* milliseconds (0.5 s); doubles each retry
_SUCCESS_MSG == <<"Thank you. Your feedback has been recorded">>

_is_retryable_status(status_code) == status_code \in {429, 500, 502, 503, 504}

RECURSIVE Pow2(_)
Pow2(n) == IF n = 0 THEN 1 ELSE 2 * Pow2(n - 1)

\* what the sidecar answers to one POST (NoResponse: the post raised)
SidecarOutcomes == {NoResponse, 200, 201, 400, 401, 429, 500, 501, 502, 503, 504}
Scripts == [1 .. (_MAX_RETRIES + 1) -> SidecarOutcomes]

Senders == {"send_feedback", "send_feedback_sync"}
IdleCall ==
    [pc |-> "idle", attempt |-> 0, posts |-> <<>>, sleeps |-> <<>>, unsent |-> <<>>,
     ret |-> <<>>]

\* the call starts: url, payload, headers and client are set up, attempt = 0
invoke(sender) ==
    /\ delivery.calls[sender].pc = "idle"
    /\ delivery' = [delivery EXCEPT !.calls[sender].pc = "post"]
    /\ UNCHANGED <<feedback, settings, repo_tree, now, branches, commits, pulls, run, log,
                   probe, notes>>

Unreachable ==
    <<"Feedback could not be delivered and was logged.", "(Server unreachable)">>
Undelivered(status) ==
    <<"Feedback could not be delivered and was logged.", "(Server returned", status>>

\* the loop body without its except clause: a post that raises ends the call
send_feedback_attempt_Raise(call, outcome) ==
    LET posted == [call EXCEPT !.posts = Append(@, outcome)]
    IN  IF outcome = NoResponse THEN [posted EXCEPT !.pc = "raised"]
        ELSE IF outcome = 201 THEN [posted EXCEPT !.pc = "returned", !.ret = _SUCCESS_MSG]
        ELSE IF _is_retryable_status(outcome) /\ call.attempt < _MAX_RETRIES
        THEN [posted EXCEPT !.pc = "sleep",
                            !.sleeps = Append(@, _INITIAL_BACKOFF * Pow2(call.attempt))]
        ELSE [posted EXCEPT !.pc = "returned",
                            !.unsent = Append(@, <<"status_", outcome>>),
                            !.ret = Undelivered(outcome)]

\* the loop body with a backoff that does not double
send_feedback_attempt_FlatBackoff(call, outcome) ==
    LET posted == [call EXCEPT !.posts = Append(@, outcome)]
    IN  IF outcome = NoResponse
        THEN IF call.attempt < _MAX_RETRIES
             THEN [posted EXCEPT !.pc = "sleep", !.sleeps = Append(@, _INITIAL_BACKOFF)]
             ELSE [posted EXCEPT !.pc = "returned",
                                 !.unsent = Append(@, <<"unreachable">>),
                                 !.ret = Unreachable]
        ELSE IF outcome = 201 THEN [posted EXCEPT !.pc = "returned", !.ret = _SUCCESS_MSG]
        ELSE IF _is_retryable_status(outcome) /\ call.attempt < _MAX_RETRIES
        THEN [posted EXCEPT !.pc = "sleep", !.sleeps = Append(@, _INITIAL_BACKOFF)]
        ELSE [posted EXCEPT !.pc = "returned",
                            !.unsent = Append(@, <<"status_", outcome>>),
                            !.ret = Undelivered(outcome)]

\* send_feedback: one pass of the loop body, from the awaited post to the
\* awaited sleep or to the return
send_feedback_attempt(call, outcome) ==
    LET posted == [call EXCEPT !.posts = Append(@, outcome)]
    IN  IF outcome = NoResponse
        THEN IF call.attempt < _MAX_RETRIES
             THEN [posted EXCEPT !.pc = "sleep",
                                 !.sleeps = Append(@, _INITIAL_BACKOFF * Pow2(call.attempt))]
             ELSE [posted EXCEPT !.pc = "returned",
                                 !.unsent = Append(@, <<"unreachable">>),
                                 !.ret = Unreachable]
        ELSE IF outcome = 201 THEN [posted EXCEPT !.pc = "returned", !.ret = _SUCCESS_MSG]
        ELSE IF _is_retryable_status(outcome) /\ call.attempt < _MAX_RETRIES
        THEN [posted EXCEPT !.pc = "sleep",
                            !.sleeps = Append(@, _INITIAL_BACKOFF * Pow2(call.attempt))]
        ELSE [posted EXCEPT !.pc = "returned",
                            !.unsent = Append(@, <<"status_", outcome>>),
                            !.ret = Undelivered(outcome)]

send_feedback_post ==
    LET call == delivery.calls["send_feedback"]
    IN  /\ call.pc = "post"
        /\ delivery' = [delivery EXCEPT !.calls["send_feedback"] =
                            send_feedback_attempt(call, delivery.script[call.attempt + 1])]
        /\ UNCHANGED <<feedback, settings, repo_tree, now, branches, commits, pulls, run,
                       log, probe, notes>>

\* asyncio.sleep returned: continue with the next attempt
send_feedback_wake ==
    LET call == delivery.calls["send_feedback"]
    IN  /\ call.pc = "sleep"
        /\ delivery' = [delivery EXCEPT !.calls["send_feedback"] =
                            [call EXCEPT !.pc = "post", !.attempt = @ + 1]]
        /\ UNCHANGED <<feedback, settings, repo_tree, now, branches, commits, pulls, run,
                       log, probe, notes>>

\* the loop body logging the payload as unsent at every failed attempt
send_feedback_sync_attempt_LogEach(call, outcome) ==
    LET posted == [call EXCEPT !.posts = Append(@, outcome)]
    IN  IF outcome = NoResponse
        THEN IF call.attempt < _MAX_RETRIES
             THEN [posted EXCEPT !.attempt = @ + 1,
                                 !.unsent = Append(@, <<"unreachable">>),
                                 !.sleeps = Append(@, _INITIAL_BACKOFF * Pow2(call.attempt))]
             ELSE [posted EXCEPT !.pc = "returned",
                                 !.unsent = Append(@, <<"unreachable">>),
                                 !.ret = Unreachable]
        ELSE IF outcome = 201 THEN [posted EXCEPT !.pc = "returned", !.ret = _SUCCESS_MSG]
        ELSE IF _is_retryable_status(outcome) /\ call.attempt < _MAX_RETRIES
        THEN [posted EXCEPT !.attempt = @ + 1,
                            !.unsent = Append(@, <<"status_", outcome>>),
                            !.sleeps = Append(@, _INITIAL_BACKOFF * Pow2(call.attempt))]
        ELSE [posted EXCEPT !.pc = "returned",
                            !.unsent = Append(@, <<"status_", outcome>>),
                            !.ret = Undelivered(outcome)]

\* send_feedback_sync: one pass of the loop body; time.sleep blocks, so the
\* pass ends at the next post or at the return
send_feedback_sync_attempt(call, outcome) ==
    LET posted == [call EXCEPT !.posts = Append(@, outcome)]
    IN  IF outcome = NoResponse
        THEN IF call.attempt < _MAX_RETRIES
             THEN [posted EXCEPT !.attempt = @ + 1,
                                 !.sleeps = Append(@, _INITIAL_BACKOFF * Pow2(call.attempt))]
             ELSE [posted EXCEPT !.pc = "returned",
                                 !.unsent = Append(@, <<"unreachable">>),
                                 !.ret = Unreachable]
        ELSE IF outcome = 201 THEN [posted EXCEPT !.pc = "returned", !.ret = _SUCCESS_MSG]
        ELSE IF _is_retryable_status(outcome) /\ call.attempt < _MAX_RETRIES
        THEN [posted EXCEPT !.attempt = @ + 1,
                            !.sleeps = Append(@, _INITIAL_BACKOFF * Pow2(call.attempt))]
        ELSE [posted EXCEPT !.pc = "returned",
                            !.unsent = Append(@, <<"status_", outcome>>),
                            !.ret = Undelivered(outcome)]

send_feedback_sync_post ==
    LET call == delivery.calls["send_feedback_sync"]
    IN  /\ call.pc = "post"
        /\ delivery' = [delivery EXCEPT !.calls["send_feedback_sync"] =
                            send_feedback_sync_attempt(call, delivery.script[call.attempt + 1])]
        /\ UNCHANGED <<feedback, settings, repo_tree, now, branches, commits, pulls, run,
                       log, probe, notes>>

InitDelivery ==
    /\ delivery \in {[script |-> sc, calls |-> [c \in Senders |-> IdleCall]] : sc \in Scripts}
    /\ probe = NoProbe /\ notes = <<>>
    /\ feedback = <<>> /\ settings \in DefaultSettings /\ repo_tree = <<>>
    /\ now = 0 /\ branches = {} /\ commits = {} /\ pulls = <<>>
    /\ run = [r \in Requests |-> IdleRun]
    /\ log = [r \in Requests |-> <<>>]

NextDelivery ==
    \/ \E sender \in Senders : invoke(sender)
    \/ send_feedback_post
    \/ send_feedback_wake
    \/ send_feedback_sync_post

SpecDelivery == InitDelivery /\ [][NextDelivery]_vars

\* every post returns or raises within the client's timeouts and every sleep
\* ends, so a call that can take its next step takes it
SpecDeliveryFair ==
    /\ SpecDelivery
    /\ WF_vars(send_feedback_post) /\ WF_vars(send_feedback_wake)
    /\ WF_vars(send_feedback_sync_post)

----------------------------------------------------------------------------
(* Properties *)

IsEvent(e) == e.op = "emit"
IsCall(e) == e.op = "call"
Events(r) == SelectSeq(log[r], IsEvent)
Calls(r) == SelectSeq(log[r], IsCall)
HasCall(r, name) == \E i \in 1 .. Len(log[r]) : log[r][i].op = "call" /\ log[r][i].name = name
Finished(r) == run[r].pc \in {"done", "failed"}
Exists(id) == id \in 1 .. Len(feedback)

\* C1: a draft request without force for a report whose pr_url is non-empty is
\* answered 409 before the stream is opened: the request emits no event, makes
\* no call, and changes nothing on the remote host or in the table.
C1_Step(r) ==
    (/\ run[r].pc = "idle" /\ run'[r].pc # "idle"
     /\ ~run'[r].force
     /\ Exists(run'[r].feedback_id)
     /\ Truthy(feedback[run'[r].feedback_id].pr_url))
    => (/\ run'[r].pc = "rejected" /\ run'[r].status = 409
        /\ log'[r] = <<>>
        /\ UNCHANGED <<branches, commits, pulls, feedback>>)

C1_ConflictRejectedBeforeStream ==
    /\ [][\A r \in Requests : C1_Step(r)]_vars
    /\ [](\A r \in Requests : run[r].pc = "rejected" => log[r] = <<>>)

C1_Witness == \E r \in Requests : run[r].status = 409 /\ ~run[r].force

\* C2: of the draft requests for one report that do not set force, at most one
\* opens a draft pull request and writes pr_url, also when they overlap.
C2_AtMostOneUnforcedDraft ==
    \A r1, r2 \in Requests :
        (/\ r1 # r2
         /\ run[r1].feedback_id = run[r2].feedback_id
         /\ ~run[r1].force /\ ~run[r2].force)
        => ~(run[r1].pc = "done" /\ run[r2].pc = "done")

\* C3: a run whose stream was opened and that was not cancelled ends with
\* exactly one terminal event, which is the last event of its stream: done,
\* carrying pr_url and branch, or error. A run still in progress has emitted
\* no terminal event.
IsTerminal(e) == e.op = "emit" /\ e.name \in {"done", "error"}
Terminals(r) == SelectSeq(log[r], IsTerminal)
LastEvent(r) == Events(r)[Len(Events(r))]

C3_ExactlyOneTerminalEvent ==
    \A r \in Requests :
        /\ Finished(r) =>
            /\ Len(Terminals(r)) = 1
            /\ IsTerminal(LastEvent(r))
            /\ LastEvent(r).name = "done" =>
                  /\ Truthy(LastEvent(r).arg.pr_url)
                  /\ Truthy(LastEvent(r).arg.branch)
        /\ run[r].pc \in InFlight => Len(Terminals(r)) = 0

C3_Witness ==
    \E r \in Requests :
        /\ run[r].pc = "failed"
        /\ HasCall(r, "create_draft_pr")
        /\ LastEvent(r).arg[1] = "Unexpected error:"

\* C4: a run that ends with an error event never writes pr_url: none of its
\* steps changes the table, and once it has failed the report's pr_url is the
\* value the run found at its start, or the value written by another run.
PrUrlOf(r) == feedback[run[r].feedback_id].pr_url
IndexOf(r, e) == CHOOSE i \in 1 .. Len(log[r]) : log[r][i] = e
Has(r, e) == \E i \in 1 .. Len(log[r]) : log[r][i] = e

C4_Step(r) ==
    (log'[r] # log[r] /\ run'[r].pc \in {"failed", "cancelled"} \cup InFlight)
    => feedback' = feedback

C4_ErrorNeverWrites ==
    /\ [][\A r \in Requests : C4_Step(r)]_vars
    /\ [](\A r \in Requests :
            run[r].pc = "failed" =>
                \/ PrUrlOf(r) = run[r].fb.pr_url
                \/ \E o \in Requests \ {r} :
                      /\ run[o].pc = "done"
                      /\ run[o].feedback_id = run[r].feedback_id
                      /\ PrUrlOf(r) = run[o].pr_url)

C4_Witness ==
    \E r \in Requests :
        /\ run[r].pc = "failed"
        /\ Has(r, DbWrite(FALSE))
        /\ Truthy(run[r].fb.pr_url)
        /\ PrUrlOf(r) = run[r].fb.pr_url

\* C5 (as the spec states it): on success the done event carries the URL
\* returned by create_draft_pr and the branch created in this run, and the
\* URL is persisted after that event has been emitted.
DoneEvent(r) == LastEvent(r)
CarriesThisRun(r) ==
    /\ DoneEvent(r).name = "done"
    /\ DoneEvent(r).arg.branch = run[r].branch_name
    /\ DoneEvent(r).arg.branch \in branches
    /\ Has(r, Call("create_branch", 200, TRUE))
    /\ Has(r, Call("create_draft_pr", 200, TRUE))
    /\ \E n \in 1 .. Len(pulls) :
          /\ DoneEvent(r).arg.pr_url = HtmlUrl(n)
          /\ pulls[n].head = run[r].branch_name

C5_PersistsAfterDone ==
    \A r \in Requests :
        run[r].pc = "done" =>
            /\ CarriesThisRun(r)
            /\ IndexOf(r, DoneEvent(r)) < IndexOf(r, DbWrite(TRUE))

\* C5 (amended): on success the run first persists the URL returned by
\* create_draft_pr, overwriting any prior value, and then emits done carrying
\* that URL and the branch created in this run.
C5_Step(r) ==
    (run[r].pc # "done" /\ run'[r].pc = "done")
    => /\ feedback'[run[r].feedback_id].pr_url = run'[r].pr_url
       /\ run'[r].pr_url = HtmlUrl(Len(pulls'))
       /\ Len(pulls') = Len(pulls) + 1

C5_PersistsThenDone ==
    /\ [][\A r \in Requests : C5_Step(r)]_vars
    /\ [](\A r \in Requests :
            run[r].pc = "done" =>
                /\ CarriesThisRun(r)
                /\ DoneEvent(r).arg.pr_url = run[r].pr_url
                /\ IndexOf(r, DbWrite(TRUE)) < IndexOf(r, DoneEvent(r)))

C5_Witness ==
    \E r \in Requests :
        /\ run[r].pc = "done"
        /\ run[r].force
        /\ Truthy(run[r].fb.pr_url)
        /\ run[r].fb.pr_url # run[r].pr_url
        /\ PrUrlOf(r) = run[r].pr_url

\* C6: when the GitHub credential, the repository or the key of the selected
\* provider is missing or empty, a draft request is rejected before the stream
\* opens: it emits nothing and makes no remote or model call.
SelectedKey ==
    IF GetOr(settings, "llm_provider", <<"anthropic">>) = <<"openai">>
    THEN "openai_api_key" ELSE "anthropic_api_key"

Unconfigured ==
    \/ ~IsSet(settings["github_pat"])
    \/ ~IsSet(settings["github_repo"])
    \/ ~IsSet(settings[SelectedKey])

C6_Step(r) ==
    (run[r].pc = "idle" /\ run'[r].pc # "idle" /\ Unconfigured)
    => /\ run'[r].pc = "rejected" /\ run'[r].status >= 400
       /\ log'[r] = <<>>
       /\ UNCHANGED <<branches, commits, pulls, feedback>>

C6_UnconfiguredRejected ==
    /\ [][\A r \in Requests : C6_Step(r)]_vars
    /\ [](Unconfigured =>
            /\ \A r \in Requests : run[r].pc \in {"idle", "rejected"} /\ log[r] = <<>>
            /\ branches = {} /\ commits = {} /\ pulls = <<>>)

C6_Witness ==
    \E r \in Requests :
        /\ run[r].pc = "rejected" /\ run[r].status = 400
        /\ IsSet(settings["github_pat"]) /\ IsSet(settings["github_repo"])
        /\ settings[SelectedKey] = <<>>

\* C7: two runs on the same report that both reach branch creation, the later
\* one a forced re-draft of the earlier, use different branch names.
C7_DistinctBranchNames ==
    \A r1, r2 \in Requests :
        (/\ r1 # r2
         /\ run[r1].pc = "done"
         /\ HasCall(r2, "create_branch")
         /\ run[r2].force
         /\ run[r2].feedback_id = run[r1].feedback_id
         /\ run[r2].fb.pr_url = run[r1].pr_url)
        => run[r2].branch_name # run[r1].branch_name

\* the position of a log entry in the pipeline (0: not a pipeline step)
StepRank(e) ==
    CASE e.op = "call" /\ e.name = "get_tree" -> 1
      [] e.op = "local" /\ e.name = "select" -> 2
      [] e.op = "call" /\ e.name = "read_file" -> 3
      [] e.op = "local" /\ e.name = "_build_user_message" -> 4
      [] e.op = "call" /\ e.name = "llm" -> 5
      [] e.op = "local" /\ e.name = "_parse_llm_json" -> 6
      [] e.op = "call" /\ e.name = "get_branch_sha" -> 7
      [] e.op = "call" /\ e.name = "create_branch" -> 8
      [] e.op = "call" /\ e.name = "get_file_sha" -> 9
      [] e.op = "call" /\ e.name = "upsert_file" -> 10
      [] e.op = "call" /\ e.name = "create_draft_pr" -> 11
      [] e.op = "emit" /\ e.name = "done" -> 12
      [] OTHER -> 0

Steps(r) == {i \in 1 .. Len(log[r]) : StepRank(log[r][i]) > 0}
StepsRanked(r, k) == {i \in Steps(r) : StepRank(log[r][i]) = k}
Succeeded(r, k) == \E i \in StepsRanked(r, k) : log[r][i].ok

\* C8: within one run the steps happen in the order tree fetch, selection,
\* reads, prompt build, model call, parse, branch creation, commit, opening of
\* the pull request, done; branch, commit and pull request are attempted only
\* after the model output was parsed and validated; the pull request is opened
\* only after the commit succeeded; a run that is done went through every step.
C8_FixedStepOrder ==
    \A r \in Requests :
        /\ \A i, j \in Steps(r) :
              i < j => \/ StepRank(log[r][i]) < StepRank(log[r][j])
                       \/ StepRank(log[r][i]) = 3 /\ StepRank(log[r][j]) = 3
        /\ \A k \in 7 .. 11 : StepsRanked(r, k) # {} =>
              /\ Succeeded(r, 6)
              /\ _validate_llm_result([t |-> "obj", v |-> run[r].result]).kind = "ok"
        /\ StepsRanked(r, 11) # {} => Succeeded(r, 8) /\ Succeeded(r, 10)
        /\ run[r].pc = "done" =>
              \A k \in (1 .. 12) \ {3, 9} : Succeeded(r, k)

C8_Witness ==
    \E r \in Requests :
        /\ run[r].pc = "done"
        /\ Succeeded(r, 3) /\ Succeeded(r, 9)
        /\ \E i \in StepsRanked(r, 3) : ~log[r][i].ok

\* C9: no step is retried: get_tree, the model call, get_branch_sha,
\* create_branch, upsert_file and create_draft_pr are each attempted at most
\* once in a run, and after one of them failed the run attempts nothing more:
\* only the error event and the closing of the client follow.
OnceOnly == {"get_tree", "llm", "get_branch_sha", "create_branch", "upsert_file",
             "create_draft_pr"}
Attempts(r, name) ==
    {i \in 1 .. Len(log[r]) : log[r][i].op = "call" /\ log[r][i].name = name}

C9_NoRetry ==
    \A r \in Requests :
        /\ \A name \in OnceOnly : Cardinality(Attempts(r, name)) <= 1
        /\ \A name \in OnceOnly : \A i \in Attempts(r, name) :
              ~log[r][i].ok =>
                  \A j \in (i + 1) .. Len(log[r]) :
                      \/ log[r][j].op = "emit" /\ log[r][j].name = "error"
                      \/ log[r][j] = Local("close")

C9_Witness ==
    \E r \in Requests :
        /\ run[r].pc = "failed"
        /\ \E i \in Attempts(r, "upsert_file") : ~log[r][i].ok
        /\ Attempts(r, "create_draft_pr") = {}

\* the steps of C10: tree fetch, reads, prompt build, model call, parse,
\* branch creation (base sha and ref), commit (blob sha and contents), opening
StepGroup(e) ==
    CASE StepRank(e) \in {7, 8} -> 7
      [] StepRank(e) \in {9, 10} -> 9
      [] StepRank(e) = 12 -> 0
      [] OTHER -> StepRank(e)

IsStepEvent(e) == e.op = "emit" /\ e.name = "step"
PrevStep(r, i) ==
    LET before == {k \in Steps(r) : k < i}
    IN  IF before = {} THEN 0 ELSE CHOOSE k \in before : \A m \in before : m <= k
Announced(r, i) ==
    \E j \in (PrevStep(r, i) + 1) .. (i - 1) : IsStepEvent(log[r][j])
SameGroup(r, i, merged) ==
    /\ PrevStep(r, i) > 0
    /\ \/ StepGroup(log[r][PrevStep(r, i)]) = StepGroup(log[r][i])
       \/ {StepGroup(log[r][PrevStep(r, i)]), StepGroup(log[r][i])} \subseteq merged

\* C10 (as the spec states it): each of the tree fetch, the reads, the prompt
\* build, the model call, the parse, the branch creation, the commit and the
\* opening of the pull request is preceded by a step event emitted after the
\* previous step completed.
C10_EveryStepAnnounced ==
    \A r \in Requests : \A i \in Steps(r) :
        (StepGroup(log[r][i]) > 0 /\ ~SameGroup(r, i, {}))
        => Announced(r, i)

\* C10 (amended): the same for every listed step except the model call, which
\* follows the prompt build with no event in between; the step event that
\* announces the model call is emitted before the prompt is built.
C10_StepsAnnouncedButModelCall ==
    \A r \in Requests : \A i \in Steps(r) :
        /\ (StepGroup(log[r][i]) > 0 /\ ~SameGroup(r, i, {4, 5}))
           => Announced(r, i)
        /\ StepRank(log[r][i]) = 5 =>
              /\ log[r][i - 1] = Local("_build_user_message")
              /\ IsStepEvent(log[r][i - 2])

C10_Witness ==
    \E r \in Requests :
        /\ run[r].pc = "done"
        /\ \A k \in 1 .. 11 : StepsRanked(r, k) # {}

\* C11: a failed read_file never ends the run and never produces an error
\* event: the entry after a failed read is the next read or the step event of
\* the model call (or the closing of a cancelled run); once the reads are over
\* every selected file was attempted, the context holds exactly the files
\* whose read succeeded, and the run is at the model call.
ReadsOk(r) == {i \in Attempts(r, "read_file") : log[r][i].ok}
PastReads(r) == StepsRanked(r, 4) # {}

C11_ReadFailuresSkipped ==
    \A r \in Requests :
        /\ \A i \in Attempts(r, "read_file") \ ReadsOk(r) :
              IF i = Len(log[r]) THEN run[r].pc = "read_file"
              ELSE \/ log[r][i + 1].op = "call" /\ log[r][i + 1].name = "read_file"
                   \/ IsStepEvent(log[r][i + 1])
                   \/ log[r][i + 1] = Local("close") /\ run[r].pc = "cancelled"
        /\ PastReads(r) =>
              Cardinality(Attempts(r, "read_file"))
                  = Len(SelectTopFiles(repo_tree, run[r].fb.server_name))
        /\ run[r].pc = "llm" =>
              /\ PastReads(r)
              /\ Len(run[r].file_contents) = Cardinality(ReadsOk(r))
              /\ Terminals(r) = <<>>

C11_Witness ==
    \E r \in Requests :
        /\ run[r].pc = "llm"
        /\ Cardinality(Attempts(r, "read_file")) >= 2
        /\ ReadsOk(r) = {}

Applied(fn) == probe.fn = fn /\ probe.done

\* C12: for a well-formed JSON object that lacks one of the five required
\* fields, _parse_llm_json raises a ValueError whose message names that field.
C12_MissingFieldNamed ==
    \A p \in Proposals : \A i \in 1 .. Len(RequiredFields) :
        (Applied("_parse_llm_json") /\ probe.arg = LackingText(p, i))
        => /\ probe.ret.kind = "ValueError"
           /\ Contains(probe.ret.msg, <<"LLM response missing required field:">>)
           /\ Contains(probe.ret.msg, <<RequiredFields[i]>>)

\* the value a proposal's text stands for, field by field
ValueOf(p, k) ==
    CASE k = "file_path" -> JStr(p.path)
      [] k = "content" -> JStr(p.content.dec)
      [] k = "commit_message" -> JStr(<<"Add x">>)
      [] k = "pr_title" -> JStr(<<"t">>)
      [] k = "pr_body" -> JStr(<<"b">>)
      [] k = "action" -> JStr(p.action)

KeysOf(p) ==
    {RequiredFields[i] : i \in 1 .. Len(RequiredFields)}
        \cup (IF p.action = NoAction THEN {} ELSE {"action"})

Reconstructs(p) ==
    /\ probe.ret.kind = "ok"
    /\ \A k \in KeysOf(p) :
          <<k>> \in DOMAIN probe.ret.val /\ probe.ret.val[<<k>>] = ValueOf(p, k)
    /\ DOMAIN probe.ret.val \subseteq {<<k>> : k \in KeysOf(p) \cup {"action"}}

\* C13: _parse_llm_json returns the fields of a well-formed proposal with
\* their values when the text is the bare object, the object in a fenced code
\* block, or the object preceded by prose, also prose that contains a brace.
RoundTripWrappers ==
    {"bare", "fenced", "fenced json", "prose", "prose with braces",
     "prose with open brace"}

C13_RoundTrip ==
    \A p \in Proposals : \A w \in RoundTripWrappers :
        (Applied("_parse_llm_json") /\ probe.arg = Wrap(w, ProposalText(p)))
        => Reconstructs(p)

\* C14: on every text _parse_llm_json either returns an object holding the
\* five required fields and action, or raises ValueError; the ValueError of a
\* non-empty text carries the first 300 characters of the text (and a mark
\* when it was cut); nothing else is raised.
AllFields == {RequiredFields[i] : i \in 1 .. Len(RequiredFields)} \cup {"action"}
BoundedPreview(msg, text) ==
    /\ msg[1] = "Could not extract JSON from LLM response."
    /\ Len(msg) - 1 <= PreviewLen + 1
    /\ \A i \in 1 .. Min(PreviewLen, Len(text)) : msg[i + 1] = text[i]

C14_ValidatedOrParseError ==
    Applied("_parse_llm_json") =>
        \/ /\ probe.ret.kind = "ok"
           /\ \A k \in AllFields : <<k>> \in DOMAIN probe.ret.val
        \/ /\ probe.ret.kind = "ValueError"
           /\ Strip(probe.arg) # <<>> => BoundedPreview(probe.ret.msg, Strip(probe.arg))

\* C15: the strategies are tried in the order direct parse, fence-stripped
\* parse, brace scan, and the first whose text loads and validates gives the
\* result; for prose, a fenced object without action and trailing commentary
\* the first two fail, the third succeeds and action is "modify"; an action
\* present in the text is returned as it is.
Candidate(text, k) ==
    CASE k = 1 -> Strip(text)
      [] k = 2 -> StripFences(Strip(text))
      [] k = 3 -> LET t == Strip(text)
                      start == FirstBrace(t)
                      end == IF start = 0 THEN 0 ELSE BraceScan(t, start, 0, FALSE, FALSE)
                  IN  IF end = 0 THEN <<>> ELSE SubSeq(t, start, end)

Loads(t) == json_loads(t).ok /\ _validate_llm_result(json_loads(t).val).kind = "ok"

C15_FirstSuccessWins ==
    Applied("_parse_llm_json") =>
        /\ probe.ret.kind = "ok" =>
              \E k \in 1 .. 3 :
                  /\ ParseStrategy(probe.arg) = k
                  /\ Loads(Candidate(probe.arg, k))
                  /\ \A j \in 1 .. (k - 1) : ~Loads(Candidate(probe.arg, j))
                  /\ probe.ret = _validate_llm_result(json_loads(Candidate(probe.arg, k)).val)
        /\ \A p \in Proposals :
              /\ probe.arg = Wrap("prose fenced trailing", ProposalText(p)) =>
                    /\ ParseStrategy(probe.arg) = 3
                    /\ Reconstructs(p)
              /\ (probe.ret.kind = "ok" /\ \E w \in Wrappers : probe.arg = Wrap(w, ProposalText(p)))
                    => /\ <<"action">> \in DOMAIN probe.ret.val
                       /\ probe.ret.val[<<"action">>] =
                            IF p.action = NoAction THEN JStr(<<"modify">>) ELSE JStr(p.action)

C15_Witness ==
    /\ Applied("_parse_llm_json")
    /\ \E p \in Proposals :
          /\ p.action = NoAction
          /\ probe.arg = Wrap("prose fenced trailing", ProposalText(p))
    /\ probe.ret.kind = "ok"
    /\ probe.ret.val[<<"action">>] = JStr(<<"modify">>)

\* C16: a path that contains node_modules/, vendor/, .git/, __pycache__/,
\* dist/ or build/ scores -1 whatever else it contains and is never selected;
\* of src/weather_server.py and node_modules/x.js, for server weather-mcp, the
\* first is selected and the second is not.
HasMarker(path) ==
    \E i \in 1 .. (Len(path) - 1) :
        /\ path[i] \in {"node_modules", "vendor", ".git", "__pycache__", "dist", "build"}
        /\ path[i + 1] = "/"
InSeq(x, seq) == \E i \in 1 .. Len(seq) : seq[i] = x

C16_VendoredExcluded ==
    /\ (Applied("_score_file") /\ HasMarker(probe.arg[1])) => probe.ret = -1
    /\ Applied("select") =>
          /\ \A i \in 1 .. Len(probe.ret) : ~HasMarker(probe.ret[i])
          /\ (InSeq(PathServer, probe.arg[1]) /\ InSeq(PathVendored, probe.arg[1])
              /\ Len(probe.arg[1]) = 2 /\ probe.arg[2] = <<"weather", "-", "mcp">>)
             => probe.ret = <<PathServer>>

C16_Witness ==
    /\ Applied("select")
    /\ probe.arg = <<<<PathVendored, PathServer>>, <<"weather", "-", "mcp">>>>
    /\ probe.ret = <<PathServer>>

\* C17: for a path that is not rejected, the server name (compared in lower
\* case, with "-" and "_" taken as the same) earns exactly 20 when the path
\* contains it and nothing otherwise, whatever keywords match; each keyword
\* the path contains adds 10; an empty server name earns nothing.
Normal(s) == [i \in 1 .. Len(s) |-> IF LowerTok(s[i]) = "-" THEN "_" ELSE LowerTok(s[i])]
Keywords(path) ==
    {k \in {"tool", "server", "mcp", "handler", "schema", "resource", "prompt"} :
        \E i \in 1 .. Len(path) : LowerTok(path[i]) = k}
BonusOf(path, name) ==
    IF name # <<>> /\ Contains(Normal(path), Normal(name)) THEN 20 ELSE 0
ExtBonus(path) == IF path[Len(path)] \in {".py", ".ts", ".tsx"} THEN 2 ELSE 0

C17_ServerNameBonus ==
    (Applied("_score_file") /\ probe.ret # -1) =>
        /\ probe.ret = 10 * Cardinality(Keywords(probe.arg[1]))
                        + BonusOf(probe.arg[1], probe.arg[2]) + ExtBonus(probe.arg[1])
        /\ probe.ret - _score_file(probe.arg[1], <<>>) = BonusOf(probe.arg[1], probe.arg[2])

C17_Witness ==
    /\ Applied("_score_file")
    /\ probe.arg = <<<<"src", "/", "weather", "_", "MCP", ".py">>, <<"weather", "-", "mcp">>>>
    /\ probe.ret = 32

\* C18: the selection has at most 8 entries, is ordered by score descending,
\* holds only paths of the tree that score >= 0, and keeps paths of equal
\* score in the order they have in the tree.
PosIn(x, seq) == CHOOSE i \in 1 .. Len(seq) : seq[i] = x

C18_SelectionBoundedSortedStable ==
    Applied("select") =>
        LET tree == probe.arg[1]
            name == probe.arg[2]
            sel == probe.ret
        IN  /\ Len(sel) <= 8
            /\ \A i \in 1 .. Len(sel) :
                  InSeq(sel[i], tree) /\ _score_file(sel[i], name) >= 0
            /\ \A i, j \in 1 .. Len(sel) : i < j =>
                  /\ _score_file(sel[i], name) >= _score_file(sel[j], name)
                  /\ _score_file(sel[i], name) = _score_file(sel[j], name)
                        => PosIn(sel[i], tree) < PosIn(sel[j], tree)

C18_Witness ==
    /\ Applied("select")
    /\ probe.arg[1] = BigTree
    /\ Len(probe.ret) = 8
    /\ \E i \in 1 .. 7 :
          _score_file(probe.ret[i], probe.arg[2]) = _score_file(probe.ret[i + 1], probe.arg[2])

\* C19: each of get_tree, read_file, get_file_sha, get_branch_sha,
\* create_branch, upsert_file and create_draft_pr answers a 401 with the
\* invalid-credential error, a 403 with the insufficient-permission error, a
\* 404 with the not-found error (get_file_sha: with None) and any other status
\* >= 400 with the generic upstream error.
RaisesWith(first) ==
    /\ probe.ret.kind = "HTTPException"
    /\ probe.ret.msg[1] = first

C19_StatusMapping ==
    (probe.fn \in ClientOps /\ probe.done) =>
        /\ probe.arg = 401 => RaisesWith("GitHub: invalid or expired PAT")
        /\ probe.arg = 403 => RaisesWith("GitHub: PAT lacks required permissions")
        /\ probe.arg = 404 =>
              IF probe.fn = "get_file_sha" THEN probe.ret = PyOk(None)
              ELSE RaisesWith("GitHub: not found")
        /\ (probe.arg >= 400 /\ probe.arg \notin {401, 403, 404})
              => RaisesWith("GitHub API error")

\* C20: for Anthropic and for OpenAI, a rejected API key, a refusal of the
\* model and a response cut at the output-length limit are each raised as an
\* error; none of them is returned as text.
C20_ProviderFailuresRaised ==
    (probe.fn \in {"_call_anthropic", "_call_openai"} /\ probe.done) =>
        /\ probe.arg.status = 401 => probe.ret.kind = "ValueError"
        /\ (probe.arg.status = 200 /\ probe.arg.ending \in {"refusal", "truncated"})
              => probe.ret.kind = "ValueError"

\* C21: send_feedback and send_feedback_sync make another attempt after an
\* attempt exactly when attempts remain and the attempt failed with a
\* connection error, a 429 or a 5xx status; after any other status that is
\* not 201 the call ends with that attempt.
Transient(outcome) == outcome = NoResponse \/ outcome = 429 \/ outcome \in 500 .. 599

C21_RetryOnTransientOnly ==
    \A sender \in Senders :
        LET call == delivery.calls[sender]
        IN  call.pc = "returned" =>
                \A i \in 1 .. Len(call.posts) :
                    (i < Len(call.posts)) <=> (i <= _MAX_RETRIES /\ Transient(call.posts[i]))

\* C22: when neither the whole text nor the fence-stripped text loads, and the
\* first balanced-brace candidate (from the first "{" of the text) does not
\* load and validate, _parse_llm_json raises its "Could not extract JSON"
\* ValueError; a valid object that starts at a later "{" is not looked at.
CouldNotExtract ==
    /\ probe.ret.kind = "ValueError"
    /\ probe.ret.msg[1] = "Could not extract JSON from LLM response."

C22_FirstCandidateOnly ==
    Applied("_parse_llm_json") =>
        /\ \A p \in Proposals :
              probe.arg = Wrap("prose with braces", ProposalText(p)) => CouldNotExtract
        /\ LET text == Strip(probe.arg)
               first == IF \E i \in 1 .. Len(text) : text[i] = "{"
                        THEN CHOOSE i \in 1 .. Len(text) :
                                text[i] = "{" /\ \A j \in 1 .. (i - 1) : text[j] # "{"
                        ELSE 0
               end == IF first = 0 THEN 0 ELSE BraceScan(text, first, 0, FALSE, FALSE)
           IN  (/\ text # <<>>
                /\ ~Loads(text) /\ ~Loads(StripFences(text))
                /\ end # 0 /\ ~Loads(SubSeq(text, first, end)))
               => CouldNotExtract

C22_Witness ==
    /\ Applied("_parse_llm_json")
    /\ \E p \in Proposals :
          /\ probe.arg = Wrap("prose with braces", ProposalText(p))
          /\ Loads(ProposalText(p))
    /\ CouldNotExtract

\* C23: for a text made of brace-free prose, a valid object whose string
\* values hold braces, escaped quotes or escaped backslashes, and any trailing
\* text, the candidate the brace scan cuts out is exactly the object, and the
\* parser returns its fields.
ScanWrappers == {"prose", "trailing", "prose trailing", "prose fenced trailing"}

C23_ScanHonoursStrings ==
    \A p \in Proposals : \A w \in ScanWrappers :
        (Applied("_parse_llm_json") /\ probe.arg = Wrap(w, ProposalText(p)))
        => /\ Candidate(probe.arg, 3) = ProposalText(p)
           /\ Reconstructs(p)

C23_Witness ==
    /\ Applied("_parse_llm_json")
    /\ \E p \in Proposals :
          /\ p.content.enc = <<"}", "a", BSL, BSL>>
          /\ probe.arg = Wrap("prose trailing", ProposalText(p))
          /\ Candidate(probe.arg, 3) = ProposalText(p)
    /\ probe.ret.kind = "ok"

\* C24 as stated: a path that is not rejected gains 10 for every occurrence of
\* a keyword, so a keyword that occurs twice adds 20.
Occurrences(path) ==
    Cardinality({i \in 1 .. Len(path) :
                    LowerTok(path[i]) \in
                        {"tool", "server", "mcp", "handler", "schema", "resource", "prompt"}})

C24_TenPerOccurrence ==
    (Applied("_score_file") /\ probe.ret # -1) =>
        probe.ret = 10 * Occurrences(probe.arg[1])
                        + BonusOf(probe.arg[1], probe.arg[2]) + ExtBonus(probe.arg[1])

\* C24, amended: a path that is not rejected gains 10 for every keyword that
\* occurs in it at least once, however often it occurs, so a keyword that
\* occurs twice adds 10.
KeywordGain == probe.ret - BonusOf(probe.arg[1], probe.arg[2]) - ExtBonus(probe.arg[1])

C24_TenPerKeyword ==
    (Applied("_score_file") /\ probe.ret # -1) =>
        /\ KeywordGain = 10 * Cardinality(Keywords(probe.arg[1]))
        /\ Occurrences(probe.arg[1]) > Cardinality(Keywords(probe.arg[1]))
              => KeywordGain < 10 * Occurrences(probe.arg[1])

C24_Witness ==
    /\ Applied("_score_file")
    /\ probe.arg = <<<<"weather", "-", "mcp", "/", "weather", "-", "mcp", ".py">>, <<>>>>
    /\ Occurrences(probe.arg[1]) = 2
    /\ probe.ret = 12

\* C25: every proposal _parse_llm_json returns has action "modify" or
\* "create"; a text whose action is anything else is not returned as a
\* proposal.
C25_ActionInEnum ==
    (Applied("_parse_llm_json") /\ probe.ret.kind = "ok") =>
        /\ <<"action">> \in DOMAIN probe.ret.val
        /\ probe.ret.val[<<"action">>] \in {JStr(<<"modify">>), JStr(<<"create">>)}

\* C26: the blob sha is looked up only for action "modify"; the commit request
\* carries a prior blob sha exactly when the action is "modify" and the path
\* is on the base branch, so a "modify" of a path that is not there is sent as
\* a creation, and a "create" is sent without a sha whether or not the path is
\* on the base branch.
OnBase(path) == \E i \in 1 .. Len(repo_tree) : JStr(repo_tree[i]) = path
IsModify(r) == run[r].result[<<"action">>] = JStr(<<"modify">>)
\* the body of the PUT that run r sent
Sent(r) ==
    upsert_file(run[r].result[<<"file_path">>], run[r].result[<<"content">>],
                run[r].result[<<"commit_message">>], run[r].branch_name, run[r].file_sha)
CallOk(r, name) ==
    \E i \in 1 .. Len(log[r]) :
        log[r][i].op = "call" /\ log[r][i].name = name /\ log[r][i].ok

C26_ShaOnlyForExistingModify ==
    \A r \in Requests :
        /\ HasCall(r, "get_file_sha") => IsModify(r)
        /\ HasCall(r, "upsert_file") =>
              /\ IsModify(r) => CallOk(r, "get_file_sha")
              /\ (Sent(r).sha # None)
                    <=> (IsModify(r) /\ OnBase(run[r].result[<<"file_path">>]))
              /\ CallOk(r, "upsert_file") => Sent(r) \in commits

C26_Witness ==
    \E r \in Requests :
        /\ CallOk(r, "upsert_file")
        /\ IsModify(r) /\ OnBase(run[r].result[<<"file_path">>])
        /\ Sent(r).sha = <<"blob sha">>
        /\ Sent(r) \in commits

\* C27: a run commits and opens a pull request only on a branch that it
\* created itself: when the host refuses the branch because the name exists,
\* the run ends with an error event, calls neither upsert_file nor
\* create_draft_pr, and the commits on the existing branch are those of the
\* run that created it.
RefusedBranch(r) ==
    \E i \in 1 .. Len(log[r]) :
        /\ log[r][i].op = "call" /\ log[r][i].name = "create_branch"
        /\ ~log[r][i].ok /\ log[r][i].arg = <<422>>

C27_OwnBranchOnly ==
    /\ \A r \in Requests :
          /\ (HasCall(r, "upsert_file") \/ HasCall(r, "create_draft_pr"))
                => CallOk(r, "create_branch")
          /\ RefusedBranch(r) =>
                /\ run[r].pc = "failed"
                /\ LastEvent(r).name = "error"
                /\ ~HasCall(r, "upsert_file") /\ ~HasCall(r, "create_draft_pr")
    /\ \A c \in commits :
          \E r \in Requests :
              /\ CallOk(r, "create_branch") /\ CallOk(r, "upsert_file")
              /\ run[r].branch_name = c.branch /\ c = Sent(r)
    /\ \A r1, r2 \in Requests :
          (r1 # r2 /\ CallOk(r1, "create_branch") /\ CallOk(r2, "create_branch"))
              => run[r1].branch_name # run[r2].branch_name

C27_Witness ==
    \E r1, r2 \in Requests :
        /\ r1 # r2
        /\ CallOk(r1, "create_branch") /\ CallOk(r1, "upsert_file")
        /\ RefusedBranch(r2)
        /\ run[r2].branch_name = run[r1].branch_name
        /\ run[r2].pc = "failed"
        /\ commits = {Sent(r1)}

\* what a run left on the remote host
BranchStays(r) == CallOk(r, "create_branch") => run[r].branch_name \in branches
CommitStays(r) == CallOk(r, "upsert_file") => Sent(r) \in commits
OpenedFrom(r) == \E i \in 1 .. Len(pulls) : pulls[i].head = run[r].branch_name
Persisted(r) ==
    \E i \in 1 .. Len(log[r]) : log[r][i].op = "db" /\ log[r][i].ok
Ended(r) == run[r].pc \in {"failed", "cancelled"}
IsPrefix(s, t) == Len(s) <= Len(t) /\ \A i \in 1 .. Len(s) : s[i] = t[i]
NothingRemoved == branches \subseteq branches' /\ commits \subseteq commits' /\ IsPrefix(pulls, pulls')

\* C28 as stated: no step removes a branch, a commit or a pull request, and a
\* run that failed or was cancelled after its create_branch leaves the branch
\* and its commit on the host, no pull request opened from the branch and no
\* pr_url persisted.
C28_FailedRunOpensNothing ==
    \A r \in Requests :
        /\ BranchStays(r) /\ CommitStays(r)
        /\ (Ended(r) /\ CallOk(r, "create_branch")) => (~OpenedFrom(r) /\ ~Persisted(r))

\* C28, amended: no step removes a branch, a commit or a pull request; a run
\* that failed or was cancelled after its create_branch leaves the branch and
\* its commit on the host and persists no pr_url; it leaves no pull request
\* when it ended before the pull request step or the host refused the pull
\* request, and it leaves the pull request it opened when only the UPDATE of
\* pr_url failed.
PrStepReached(r) ==
    \E i \in 1 .. Len(log[r]) :
        log[r][i].op = "emit" /\ log[r][i].arg = <<"Opening draft pull request">>
PrRefused(r) ==
    \E i \in 1 .. Len(log[r]) :
        /\ log[r][i].op = "call" /\ log[r][i].name = "create_draft_pr"
        /\ ~log[r][i].ok /\ log[r][i].arg # <<NoResponse>>
UpdateFailed(r) ==
    \E i \in 1 .. Len(log[r]) : log[r][i].op = "db" /\ ~log[r][i].ok

C28_State ==
    \A r \in Requests :
        /\ BranchStays(r) /\ CommitStays(r)
        /\ (Ended(r) /\ CallOk(r, "create_branch")) =>
              /\ ~Persisted(r)
              /\ (~PrStepReached(r) \/ PrRefused(r)) => ~OpenedFrom(r)
              /\ UpdateFailed(r) => (OpenedFrom(r) /\ CallOk(r, "create_draft_pr"))

C28_NoRollback == []C28_State /\ [][NothingRemoved]_vars

C28_Witness ==
    \E r \in Requests :
        /\ run[r].pc = "cancelled"
        /\ CallOk(r, "upsert_file")
        /\ run[r].branch_name \in branches /\ Sent(r) \in commits
        /\ ~OpenedFrom(r)
        /\ feedback[run[r].feedback_id].pr_url = run[r].fb.pr_url

\* C29: a step of a run writes nothing that is persisted except the pr_url of
\* the report the run was started for: the settings, the notes, the number of
\* reports, every other report and every other field of that report are as
\* they were, and only the committed UPDATE of a run that opened its pull
\* request changes that pr_url.
RunStep(r) == run'[r] # run[r]
SameButPrUrl(old, new) == [new EXCEPT !.pr_url = old.pr_url] = old

C29_Step ==
    \A r \in Requests :
        RunStep(r) =>
            /\ settings' = settings /\ notes' = notes
            /\ Len(feedback') = Len(feedback)
            /\ \A id \in 1 .. Len(feedback) :
                  /\ id # run'[r].feedback_id => feedback'[id] = feedback[id]
                  /\ SameButPrUrl(feedback[id], feedback'[id])
                  /\ feedback'[id] # feedback[id] =>
                        (run'[r].pc = "done" /\ feedback'[id].pr_url = run'[r].pr_url)

C29_WritesOnlyPrUrl == [][C29_Step]_vars

C29_Witness ==
    \E r \in Requests :
        /\ run[r].pc = "done"
        /\ Len(feedback) = MaxFeedback /\ notes # <<>>
        /\ run[r].fb.notes # <<>>
        /\ feedback[run[r].feedback_id].pr_url = run[r].pr_url
        /\ \E id \in 1 .. Len(feedback) :
              id # run[r].feedback_id /\ feedback[id].pr_url = <<>>

\* C30: runs on one report are not serialized. Whenever a run persists, the
\* report's pr_url becomes the url of that run (so it is the url of the run
\* that persisted last), no other step changes it, and it stays empty while
\* no run has succeeded; every run that succeeded emitted a done event with
\* its own url and opened its own pull request, from its own branch.
Persists(r) == run[r].pc # "done" /\ run'[r].pc = "done"
DoneRuns(id) == {r \in Requests : run[r].pc = "done" /\ run[r].feedback_id = id}

C30_Step ==
    \A id \in 1 .. Len(feedback) :
        /\ \A r \in Requests :
              (Persists(r) /\ run'[r].feedback_id = id)
                  => feedback'[id].pr_url = run'[r].pr_url
        /\ feedback'[id].pr_url # feedback[id].pr_url
              => \E r \in Requests : Persists(r) /\ run'[r].feedback_id = id

C30_State ==
    \A id \in 1 .. Len(feedback) :
        /\ DoneRuns(id) = {} => feedback[id].pr_url = <<>>
        /\ DoneRuns(id) # {} => \E r \in DoneRuns(id) : feedback[id].pr_url = run[r].pr_url
        /\ \A r \in DoneRuns(id) :
              /\ LastEvent(r).name = "done"
              /\ LastEvent(r).arg.pr_url = run[r].pr_url
              /\ \E i \in 1 .. Len(pulls) :
                    pulls[i].head = run[r].branch_name /\ HtmlUrl(i) = run[r].pr_url
        /\ \A r1, r2 \in DoneRuns(id) :
              r1 # r2 => (/\ run[r1].pr_url # run[r2].pr_url
                          /\ run[r1].branch_name # run[r2].branch_name)

C30_LastPersistWins == []C30_State /\ [][C30_Step]_vars

\* two forced runs that both started before either persisted, both succeeded
C30_Witness ==
    \E r1, r2 \in Requests :
        /\ r1 # r2
        /\ run[r1].pc = "done" /\ run[r2].pc = "done"
        /\ run[r1].force /\ run[r2].force
        /\ run[r1].feedback_id = run[r2].feedback_id
        /\ run[r1].fb.pr_url = <<>> /\ run[r2].fb.pr_url = <<>>
        /\ run[r1].pr_url = HtmlUrl(1) /\ run[r2].pr_url = HtmlUrl(2)
        /\ feedback[run[r1].feedback_id].pr_url = HtmlUrl(2)
        /\ Len(pulls) = 2

----------------------------------------------------------------------------
(* The prompt builder applied on its own *)

\* trees of n paths and texts of k lines, around the two limits
PromptTreeSizes == {0, 1, 29, 30, 31, 32, 45}
PromptTree(n) == [i \in 1 .. n |-> <<"src/f">> \o Str(i) \o <<".py">>]
PromptLineCounts == {1, 2, 499, 500, 501, 640}
PromptText(k) == JoinLines([i \in 1 .. k |-> <<"line">> \o Str(i)])
PromptTexts ==
    {PromptText(k) : k \in PromptLineCounts}
        \cup {<<>>, PromptText(499) \o <<NL>>, PromptText(500) \o <<NL>>}
PromptFiles ==
    {<<>>}
        \cup {<<(<<PathServer, c>>)>> : c \in PromptTexts}
        \cup {<<(<<PathServer, PromptText(k)>>), (<<PathTool, PromptText(j)>>)>> :
                k \in {2, 501}, j \in {1, 640}}
PromptReports ==
    {[id |-> 1, server_name |-> <<"weather", "-", "mcp">>,
      gap_type |-> <<"missing", "_", "tool">>, reviewed |-> FALSE, pr_url |-> <<>>,
      notes |-> ns] :
        ns \in {<<>>, <<[id |-> 1, timestamp |-> 0, content |-> <<"check the schema">>]>>}}

apply_build_user_message ==
    /\ probe.fn = "_build_user_message" /\ ~probe.done
    /\ probe' = [probe EXCEPT !.done = TRUE,
                              !.ret = _build_user_message(probe.arg[1], probe.arg[2],
                                                          probe.arg[3])]
    /\ UNCHANGED <<feedback, settings, repo_tree, now, branches, commits, pulls, run, log,
                 delivery, notes>>

InitPrompt ==
    /\ probe \in {Probe("_build_user_message", <<fb, PromptTree(n), fc>>) :
                    fb \in PromptReports, n \in PromptTreeSizes, fc \in PromptFiles}
    /\ delivery = NoDelivery /\ notes = <<>>
    /\ feedback = <<>> /\ settings \in DefaultSettings /\ repo_tree = <<>>
    /\ now = 0 /\ branches = {} /\ commits = {} /\ pulls = <<>>
    /\ run = [r \in Requests |-> IdleRun]
    /\ log = [r \in Requests |-> <<>>]

NextPrompt == apply_build_user_message
SpecPrompt == InitPrompt /\ [][NextPrompt]_vars

\* the position of a heading among the lines of a prompt
LineOf(lines, heading) == CHOOSE i \in 1 .. Len(lines) : lines[i] = heading

\* the lines of the prompt under "## Repository file tree"
ListedTree(lines) ==
    SubSeq(lines, LineOf(lines, <<"## Repository file tree">>) + 1,
                  LineOf(lines, <<"## Relevant source files">>) - 2)

\* the lines of the prompt under "## Relevant source files"
ListedFiles(lines) ==
    SubSeq(lines, LineOf(lines, <<"## Relevant source files">>) + 1, Len(lines))

\* the number of lines of file j that are shown, and the lines that the files
\* before j take in the section
Shown(fc, j) == Min(FileLinesMax, Len(SplitLines(fc[j][2])))
RECURSIVE Before(_, _)
Before(fc, j) == IF j = 1 THEN 1 ELSE Before(fc, j - 1) + 4 + Shown(fc, j - 1)

TreeAsListed(tree, listed) ==
    IF tree = <<>> THEN listed = << <<>> >>
    ELSE /\ SubSeq(listed, 1, Min(TreeListingMax, Len(tree)))
                = SubSeq(tree, 1, Min(TreeListingMax, Len(tree)))
         /\ IF Len(tree) > TreeListingMax
            THEN /\ Len(listed) = TreeListingMax + 1
                 /\ listed[TreeListingMax + 1]
                        = <<"... and">> \o Str(Len(tree) - TreeListingMax) \o <<"more files">>
            ELSE Len(listed) = Len(tree)

FileAsListed(fc, j, listed) ==
    LET at == Before(fc, j)
        ls == SplitLines(fc[j][2])
        m == Shown(fc, j)
    IN  /\ listed[at + 1] = <<>>
        /\ listed[at + 2] = <<"###">> \o fc[j][1]
        /\ listed[at + 3] = <<FENCE>>
        /\ \A i \in 1 .. m : listed[at + 3 + i] = ls[i]
        /\ listed[at + 4 + m] = <<FENCE>>

FilesAsListed(fc, listed) ==
    /\ listed[1] = <<>>
    /\ \A j \in 1 .. Len(fc) : FileAsListed(fc, j, listed)
    /\ Len(listed) = Before(fc, Len(fc) + 1)

\* C32: the prompt lists exactly the first min(30, n) paths of the tree in tree
\* order, followed by the count n - 30 of the rest only when n > 30, and for
\* each file that was read its path and exactly its first min(500, k) lines
C32_PromptLimits ==
    Applied("_build_user_message") =>
        /\ TreeAsListed(probe.arg[2], ListedTree(SplitLines(probe.ret)))
        /\ FilesAsListed(probe.arg[3], ListedFiles(SplitLines(probe.ret)))

\* a prompt built for a tree of more than 30 paths and a file of more than 500
\* lines
C32_Witness ==
    /\ Applied("_build_user_message")
    /\ Len(probe.arg[2]) > TreeListingMax
    /\ Len(probe.arg[3]) = 2
    /\ Len(SplitLines(probe.arg[3][1][2])) > FileLinesMax
    /\ Len(ListedTree(SplitLines(probe.ret))) = TreeListingMax + 1
    /\ Len(ListedFiles(SplitLines(probe.ret))) < Len(SplitLines(probe.arg[3][1][2]))
                                                    + Len(SplitLines(probe.arg[3][2][2]))

----------------------------------------------------------------------------
(* Developer notes in the prompt *)

\* the note lines of a prompt, in the order they appear
PromptNotes(msg) == SelectSeq(SplitLines(msg), LAMBDA l : Len(l) > 0 /\ l[1] = "- [")

\* the line a note is expected on
ExpectedNoteLine(n) == <<"- [">> \o Str(n.timestamp) \o <<"]">> \o n.content

\* the notes of a report that the table holds, as a set of attached notes
TableNotes(id) == {Attached(notes[i]) : i \in {j \in 1 .. Len(notes) : notes[j].feedback_id = id}}

Ascending(ns) == \A i, j \in 1 .. Len(ns) : i < j => ns[i].timestamp <= ns[j].timestamp

Validated(r) == run[r].pc = "idle" /\ run'[r].pc = "get_tree"

C31_Step ==
    /\ IsPrefix(notes, notes')
    /\ \A r \in Requests :
        /\ Validated(r) =>
            /\ {run'[r].fb.notes[i] : i \in 1 .. Len(run'[r].fb.notes)}
                    = TableNotes(run'[r].feedback_id)
            /\ Len(run'[r].fb.notes) = Cardinality(TableNotes(run'[r].feedback_id))
            /\ Ascending(run'[r].fb.notes)
        /\ run[r].pc \notin {"idle", "rejected"} => run'[r].fb = run[r].fb

C31_State ==
    \A r \in Requests :
        run[r].user_msg # <<>> =>
            PromptNotes(run[r].user_msg)
                = [i \in 1 .. Len(run[r].fb.notes) |-> ExpectedNoteLine(run[r].fb.notes[i])]

\* C31: no step modifies or removes a note; a validated draft request carries
\* exactly the notes its report then had, in ascending timestamp order, keeps
\* them for the whole run, and its prompt lists exactly these notes in that
\* order, so a note added after validation is in no prompt of that run
C31_NotesSnapshotInPrompt == []C31_State /\ [][C31_Step]_vars

\* a prompt built with the one note of validation time, while the table holds a
\* note of the same report added since
C31_Witness ==
    \E r \in Requests :
        /\ run[r].user_msg # <<>>
        /\ Len(PromptNotes(run[r].user_msg)) = 1
        /\ Cardinality(TableNotes(run[r].feedback_id)) = 2

----------------------------------------------------------------------------
(* Configuration checks *)

\* the report exists and the idempotency guard lets the request through
PastGuards(r) ==
    /\ run[r].pc # "idle"
    /\ run[r].status \notin {404, 409}

\* C33: a draft request made while the selected provider's key is absent from
\* the settings is rejected with 400, as it is when the GitHub credential or
\* the repository is missing
C33_AbsentKeyIs400 ==
    \A r \in Requests :
        (PastGuards(r) /\ settings[SelectedKey] = Absent)
        => run[r].pc = "rejected" /\ run[r].status = 400

\* C34: under every settings state, the configured flag of GET /api/settings is
\* true exactly when the pre-flight check of a draft request passes
C34_ConfiguredIffPreflight ==
    \A r \in Requests :
        PastGuards(r) => (get_settings(settings).configured <=> run[r].status = 200)

----------------------------------------------------------------------------
(* A failed persist of pr_url *)

EventNames(r) == [i \in 1 .. Len(Events(r)) |-> Events(r)[i].name]

C35_Step ==
    \A r \in Requests :
        (~UpdateFailed(r) /\ UpdateFailed(r)')
        => /\ feedback' = feedback
           /\ Len(pulls') = Len(pulls) + 1
           /\ pulls'[Len(pulls')].head = run[r].branch_name
           /\ run'[r].pc = "failed"

C35_State ==
    \A r \in Requests :
        UpdateFailed(r)
        => /\ run[r].pc = "failed"
           /\ \A i \in 1 .. Len(EventNames(r)) :
                /\ EventNames(r)[i] # "done"
                /\ EventNames(r)[i] = "error" <=> i = Len(EventNames(r))
           /\ OpenedFrom(r)
           /\ run[r].branch_name \in branches

\* C35: when the UPDATE of pr_url fails after the pull request was opened, the
\* run ends with one error event as its last event and no done event, the
\* table is left as it was, and the pull request and its branch stay on the
\* host
C35_PersistFailure == []C35_State /\ [][C35_Step]_vars

\* a forced re-draft whose pull request was opened and whose UPDATE failed: the
\* report still carries the pr_url of the earlier run
C35_Witness ==
    \E r \in Requests :
        /\ UpdateFailed(r) /\ run[r].force
        /\ Len(pulls) = 2
        /\ pulls[2].head = run[r].branch_name
        /\ feedback[run[r].feedback_id].pr_url = HtmlUrl(1)

----------------------------------------------------------------------------
(* Delivery of feedback by the drop-in tool *)

CallOf(sender) == delivery.calls[sender]
Returned(sender) == CallOf(sender).pc = "returned"
Got201(call) == \E i \in 1 .. Len(call.posts) : call.posts[i] = 201
Messages == {_SUCCESS_MSG, Unreachable} \cup {Undelivered(st) : st \in SidecarOutcomes}

C36_State ==
    delivery # NoDelivery =>
        \A sender \in Senders :
            /\ CallOf(sender).pc \in {"idle", "post", "sleep", "returned"}
            /\ Len(CallOf(sender).posts) <= _MAX_RETRIES + 1
            /\ \A i \in 1 .. (Len(CallOf(sender).posts) - 1) : CallOf(sender).posts[i] # 201
            /\ Returned(sender) =>
                /\ CallOf(sender).ret \in Messages
                /\ CallOf(sender).ret = _SUCCESS_MSG <=> Got201(CallOf(sender))

\* C36: a call of either sender posts at most _MAX_RETRIES + 1 times, never
\* after a 201, returns the success message exactly when some post was
\* answered 201, never raises, and once started always returns a message
C36_BoundedAndReturns ==
    /\ []C36_State
    /\ \A sender \in Senders :
        (delivery # NoDelivery /\ CallOf(sender).pc = "post") ~> Returned(sender)

\* both senders returned after three posts, the first two of which raised
C36_Witness ==
    /\ delivery # NoDelivery
    /\ \A sender \in Senders :
        /\ Returned(sender)
        /\ CallOf(sender).posts = <<NoResponse, NoResponse, 201>>
        /\ CallOf(sender).ret = _SUCCESS_MSG

C37_State ==
    delivery # NoDelivery =>
        \A sender \in Senders :
            IF Returned(sender) /\ CallOf(sender).ret # _SUCCESS_MSG
            THEN Len(CallOf(sender).unsent) = 1
            ELSE CallOf(sender).unsent = <<>>

C37_Step ==
    \A sender \in Senders :
        /\ CallOf(sender).unsent' # CallOf(sender).unsent => Returned(sender)'
        /\ Returned(sender) => CallOf(sender)' = CallOf(sender)

\* C37: a call that returns anything but the success message has logged the
\* payload as unsent exactly once, in the step of its return, after which it
\* posts nothing; a call that has not returned, or returned the success
\* message, has logged none
C37_UnsentLoggedOnce == []C37_State /\ [][C37_Step]_vars

\* one sender gave up on a status after two retries and logged once, the other
\* has not yet returned
C37_Witness ==
    /\ delivery # NoDelivery
    /\ Returned("send_feedback_sync")
    /\ CallOf("send_feedback_sync").posts = <<NoResponse, 503, 500>>
    /\ CallOf("send_feedback_sync").unsent = << <<"status_", 500>> >>
    /\ CallOf("send_feedback").pc = "sleep"

\* C38: once both senders have returned on the same sequence of outcomes they
\* made the same posts, slept the same delays (0.5 s, then 1.0 s, one between
\* two posts and none after the last), logged the same and returned the same
C38_SendersEquivalent ==
    (delivery # NoDelivery /\ \A sender \in Senders : Returned(sender))
    => /\ CallOf("send_feedback").posts = CallOf("send_feedback_sync").posts
       /\ CallOf("send_feedback").sleeps = CallOf("send_feedback_sync").sleeps
       /\ CallOf("send_feedback").unsent = CallOf("send_feedback_sync").unsent
       /\ CallOf("send_feedback").ret = CallOf("send_feedback_sync").ret
       /\ CallOf("send_feedback").sleeps
            = SubSeq(<<500, 1000>>, 1, Len(CallOf("send_feedback").posts) - 1)

\* both senders returned "unreachable" after three posts and two sleeps
C38_Witness ==
    /\ delivery # NoDelivery
    /\ \A sender \in Senders :
        /\ Returned(sender)
        /\ CallOf(sender).posts = <<429, NoResponse, NoResponse>>
        /\ CallOf(sender).sleeps = <<500, 1000>>
        /\ CallOf(sender).ret = Unreachable

----------------------------------------------------------------------------
(* GET /api/settings applied to stored secrets *)

Stars == <<"*", "*", "*", "*">>

\* secrets as sequences of characters, of length 1 to 9
MaskSecrets ==
    {<<"a">>, <<"a", "b", "c", "d">>, <<"x", "a", "b", "c", "d">>,
     <<"y", "a", "b", "c", "d">>, <<"s", "k", "-", "x", "y", "a", "b", "c", "d">>,
     Stars, Stars \o <<"a", "b", "c", "d">>}

apply_get_settings ==
    /\ probe.fn = "get_settings" /\ ~probe.done
    /\ probe' = [probe EXCEPT !.done = TRUE, !.ret = get_settings(probe.arg)]
    /\ UNCHANGED <<feedback, settings, repo_tree, now, branches, commits, pulls, run, log,
                 delivery, notes>>

InitMask ==
    /\ probe \in {Probe("get_settings", SettingsOf(pat, <<"owner/repo">>, Absent, ak, ok)) :
                    pat \in MaskSecrets \cup {Absent},
                    ak \in MaskSecrets \cup {<<>>},
                    ok \in MaskSecrets}
    /\ delivery = NoDelivery /\ notes = <<>>
    /\ feedback = <<>> /\ settings \in DefaultSettings /\ repo_tree = <<>>
    /\ now = 0 /\ branches = {} /\ commits = {} /\ pulls = <<>>
    /\ run = [r \in Requests |-> IdleRun]
    /\ log = [r \in Requests |-> <<>>]

NextMask == apply_get_settings
SpecMask == InitMask /\ [][NextMask]_vars

Stored(key) == probe.arg[key] # Absent /\ probe.arg[key] # <<>>
Returns(key) == probe.ret.masked[key]
LastFour(v) == SubSeq(v, IF Len(v) <= 4 THEN 1 ELSE Len(v) - 3, Len(v))

\* the returned form of a stored secret
MaskedForm(key) ==
    Returns(key) = IF Len(probe.arg[key]) <= 4 THEN Stars
                   ELSE Stars \o LastFour(probe.arg[key])

\* C39 as stated: no stored secret is returned in full, each is returned as
\* four stars and at most its last four characters, as four stars only when it
\* has at most four characters, and any two secrets with the same last four
\* characters are returned identically
C39_MaskedAndSameTail ==
    Applied("get_settings") =>
        \A k1, k2 \in _ENV_KEYS :
            (Stored(k1) /\ Stored(k2))
            => /\ Returns(k1) # probe.arg[k1]
               /\ MaskedForm(k1)
               /\ LastFour(probe.arg[k1]) = LastFour(probe.arg[k2])
                    => Returns(k1) = Returns(k2)

\* the returned value depends on nothing but the length class of the secret
\* and its last four characters
SameClass(v, w) == (Len(v) <= 4) <=> (Len(w) <= 4)

\* C39: each stored secret is returned as four stars followed by its last four
\* characters when it is longer than four and as four stars only otherwise, so
\* nothing before the last four characters is returned; two secrets that are
\* both longer than four, or both not, and have the same last four characters
\* are returned identically; what is returned differs from the secret unless
\* the secret itself begins with four stars
C39_Masked ==
    Applied("get_settings") =>
        \A k1, k2 \in _ENV_KEYS :
            (Stored(k1) /\ Stored(k2))
            => /\ MaskedForm(k1)
               /\ (LastFour(probe.arg[k1]) = LastFour(probe.arg[k2])
                     /\ SameClass(probe.arg[k1], probe.arg[k2]))
                    => Returns(k1) = Returns(k2)
               /\ SubSeq(probe.arg[k1], 1, Min(4, Len(probe.arg[k1]))) # Stars
                    => Returns(k1) # probe.arg[k1]

\* two longer secrets with the same last four characters returned identically,
\* next to a secret of exactly these four characters returned as stars only
C39_Witness ==
    /\ Applied("get_settings")
    /\ probe.arg["github_pat"] = <<"x", "a", "b", "c", "d">>
    /\ probe.arg["anthropic_api_key"] = <<"y", "a", "b", "c", "d">>
    /\ probe.arg["openai_api_key"] = <<"a", "b", "c", "d">>
    /\ Returns("github_pat") = Stars \o <<"a", "b", "c", "d">>
    /\ Returns("anthropic_api_key") = Returns("github_pat")
    /\ Returns("openai_api_key") = Stars

----------------------------------------------------------------------------
(* POST /api/feedback with the shared secret *)

\* FEEDBACK_API_KEY of the process: empty when it is not set
ApiKeys == {<<>>, <<"s3cret">>}
Bearer(key) == <<"Bearer ">> \o key

\* the Authorization header of a request (None: no such header)
Authorizations ==
    {None, <<>>, Bearer(<<"s3cret">>), Bearer(<<"other">>), <<"s3cret">>,
     <<"bearer ">> \o <<"s3cret">>, Bearer(<<"s3cret">>) \o <<"x">>, Bearer(<<>>)}

\* the fields a request body may carry; FeedbackIn requires the first two
BodyFields == {"what_i_needed", "what_i_tried", "server_name", "gap_type"}
Bodies == SUBSET BodyFields

\* FeedbackIn accepts the body (the request reaches the handler)
FeedbackIn(body) == {"what_i_needed", "what_i_tried"} \subseteq body

\* check_auth(authorization): 401, or 0 when the request may proceed
check_auth_PrefixOnly(API_KEY, authorization) ==
    IF ~Truthy(API_KEY) THEN 0
    ELSE IF authorization = None \/ ~Truthy(authorization)
            \/ authorization[1] # "Bearer " THEN 401
    ELSE 0

check_auth(API_KEY, authorization) ==
    IF ~Truthy(API_KEY) THEN 0
    ELSE IF authorization = None \/ ~Truthy(authorization)
            \/ authorization # Bearer(API_KEY) THEN 401
    ELSE 0

\* the answer to a request: 422 from the validation of the body, which
\* precedes the handler, 401 from check_auth, 201 once the row is inserted
FeedbackStatus(API_KEY, authorization, body) ==
    IF ~FeedbackIn(body) THEN 422
    ELSE IF check_auth(API_KEY, authorization) # 0 THEN 401
    ELSE 201

\* POST /api/feedback: the whole request, recorded with its answer
post_feedback(authorization, body) ==
    /\ probe.fn = "create_feedback"
    /\ Len(feedback) < MaxFeedback
    /\ probe' = [probe EXCEPT
                    !.arg = [API_KEY |-> probe.arg.API_KEY,
                             authorization |-> authorization, body |-> body],
                    !.done = TRUE,
                    !.ret = FeedbackStatus(probe.arg.API_KEY, authorization, body)]
    /\ feedback' = IF FeedbackStatus(probe.arg.API_KEY, authorization, body) = 201
                   THEN Append(feedback,
                            [id |-> Len(feedback) + 1,
                             server_name |-> IF "server_name" \in body
                                             THEN <<"weather", "-", "mcp">>
                                             ELSE <<"unknown">>,
                             gap_type |-> IF "gap_type" \in body
                                          THEN <<"missing", "_", "tool">>
                                          ELSE <<"other">>,
                             reviewed |-> FALSE, pr_url |-> <<>>])
                   ELSE feedback
    /\ UNCHANGED <<settings, repo_tree, now, branches, commits, pulls, run, log,
                   delivery, notes>>

InitAuth ==
    /\ probe \in {Probe("create_feedback",
                        [API_KEY |-> key, authorization |-> None, body |-> {}]) :
                    key \in ApiKeys}
    /\ delivery = NoDelivery /\ notes = <<>>
    /\ feedback = <<>> /\ settings \in DefaultSettings /\ repo_tree = <<>>
    /\ now = 0 /\ branches = {} /\ commits = {} /\ pulls = <<>>
    /\ run = [r \in Requests |-> IdleRun]
    /\ log = [r \in Requests |-> <<>>]

NextAuth == \E authorization \in Authorizations, body \in Bodies : post_feedback(authorization, body)
SpecAuth == InitAuth /\ [][NextAuth]_vars

\* the request just answered, and whether its header is the expected one
Answered == probe'.fn = "create_feedback" /\ probe'.done
KeySet == Truthy(probe'.arg.API_KEY)
Authorized == probe'.arg.authorization = Bearer(probe'.arg.API_KEY)
Stores ==
    /\ Len(feedback') = Len(feedback) + 1
    /\ SubSeq(feedback', 1, Len(feedback)) = feedback
    /\ feedback'[Len(feedback')].reviewed = FALSE
    /\ feedback'[Len(feedback')].pr_url = <<>>

\* C40 as stated: with the key set, every submission whose header is missing
\* or is not exactly "Bearer <key>" is answered 401 and stores nothing; with
\* no key set, every well-formed submission is stored; a stored report starts
\* not reviewed and without a pr_url
C40_Step ==
    Answered =>
        /\ (KeySet /\ ~Authorized) => (probe'.ret = 401 /\ feedback' = feedback)
        /\ (~KeySet /\ FeedbackIn(probe'.arg.body)) => (probe'.ret = 201 /\ Stores)
        /\ feedback' # feedback => Stores
C40_UnauthorizedIs401 == [][C40_Step]_vars

\* C40: with the key set, a well-formed submission whose header is missing or
\* is not exactly "Bearer <key>" is answered 401, and a submission that is not
\* well-formed is answered 422 whatever its header; neither stores a record.
\* With no key set, every well-formed submission is stored. A stored report
\* starts not reviewed and without a pr_url
C40_AuthStep ==
    Answered =>
        /\ ~FeedbackIn(probe'.arg.body) => (probe'.ret = 422 /\ feedback' = feedback)
        /\ (FeedbackIn(probe'.arg.body) /\ KeySet /\ ~Authorized)
            => (probe'.ret = 401 /\ feedback' = feedback)
        /\ (FeedbackIn(probe'.arg.body) /\ (~KeySet \/ Authorized))
            => (probe'.ret = 201 /\ Stores)
C40_RejectedStoresNothing == [][C40_AuthStep]_vars

\* a well-formed submission with the key in the wrong case of "Bearer" was
\* answered 401 after an authorized one had been stored
C40_Witness ==
    /\ Applied("create_feedback")
    /\ probe.arg.API_KEY = <<"s3cret">>
    /\ probe.arg.authorization = <<"bearer ", "s3cret">>
    /\ FeedbackIn(probe.arg.body)
    /\ probe.ret = 401
    /\ Len(feedback) = 1 /\ ~feedback[1].reviewed /\ feedback[1].pr_url = <<>>

====
